---- MODULE Spec2Model ----
(***************************************************************************)
(* Post-processing pipeline of the VisionSleuth backend: the threat        *)
(* interaction analyzer (models/threat_analyzer.py), the per-session video *)
(* processor (models/video_processor.py) and the confidence calibrator     *)
(* (models/crime_detection_model.py).                                      *)
(*                                                                         *)
(* Python dicts are functions from key strings to values: a key is absent  *)
(* exactly when it is not in the DOMAIN.  Optional values (the result of   *)
(* dict.get without a default) are sequences of length 0 (None) or 1.      *)
(* Floats are exact rationals: a pair <<num, den>> with den > 0, or, for    *)
(* confidences, an integer number of millionths.                           *)
(***************************************************************************)
EXTENDS Integers, Sequences, FiniteSets, TLC

VARIABLES
    detections,   \* ThreatAnalyzer: the caller's detection list (dicts, mutated in place)
    results,      \* ThreatAnalyzer: the list analyze returned, as indices into detections
    analysed,     \* ThreatAnalyzer: TRUE when results is the return value for detections
    mode,                 \* VideoProcessor.mode
    iou_match_threshold,  \* VideoProcessor.iou_match_threshold (TRACK_IOU_THRESHOLD)
    previous_detections,  \* VideoProcessor.previous_detections
    prev_at_entry,        \* previous_detections as the last process_frame call found it
    model_out,            \* what self.model.process_frame returned to the last call
    frame_result,         \* the dict the last process_frame call returned, None before
    current,              \* the argument of the last _smooth_confidence call (as passed)
    smoothed,             \* the list the last _smooth_confidence call returned, None before
    risk_input,           \* the detection passed to the last _assess_risk call
    risk_shape,           \* the frame_shape passed to the last _assess_risk call
    risk_score,           \* what the last _assess_risk call returned, None before
    temp_scale,           \* CrimeDetectionModel.temp_scale (CONFIDENCE_TEMP_SCALE)
    calibrations,         \* the _calibrate_conf calls made so far: {[conf, out]}
    rect_a,                \* IoU: the first rectangle of the last comparison
    rect_b,                \* IoU: the second rectangle of the last comparison
    iou_out,              \* IoU: what both implementations returned for it, None before
    cls_name,             \* classifier: the class_name argument of the last call
    cls_conf,             \* classifier: its confidence argument
    cls_bbox,             \* classifier: its bbox argument, None when not passed
    cls_out,              \* classifier: the string it returned, None before the call
    cls_return,           \* classifier: the return statement the call reached, None before
    report_input,         \* report: the detection_data argument of the generate_report call
    report,               \* report: what the call evaluated to, None before the call
    active_connections,   \* live_analysis: client_id -> the connection stored for it
    video_processors,     \* live_analysis: client_id -> the VideoProcessor stored for it
    client_locks,         \* live_analysis: client_id -> the asyncio.Lock stored for it
    client_frame_counts,  \* live_analysis: client_id -> frames processed
    client_last_ts_ms,    \* live_analysis: client_id -> time of the last processed frame
    processor_state,      \* VideoProcessor instance -> its previous_detections
    handlers,             \* connection -> its websocket_endpoint coroutine
    inbox,                \* connection -> the frames sent by the client and not yet received
    results_sent,         \* the result messages sent on the feeds, in the order of sending
    rest_responses,       \* REST caller -> the last response of POST /frame, None before
    now_ms,               \* the wall clock, in milliseconds
    frames_submitted,     \* frames and requests received so far
    processor_users,      \* VideoProcessor instance -> the sessions whose frames it processed
    det_model,            \* CrimeDetectionModel.model: "none" or "loaded"
    det_is_yolo11,        \* CrimeDetectionModel.is_yolo11
    det_class_thresholds, \* CrimeDetectionModel.class_thresholds (CLASS_THRESHOLDS)
    det_frame,            \* the frame argument of the process_frame call
    det_boxes,            \* the boxes the tracker holds for that frame
    det_has_ids,          \* whether results.boxes.id of that frame is not None
    det_return,           \* what the process_frame call returned, None before
    gcp,                  \* video_analysis: whether the module holds a GCPConnector
    analysis_tasks,       \* video_analysis: video_id -> the task dict (status, error)
    workers,              \* video_id -> the process_video call made for it
    local_files,          \* the video ids whose file under uploads/ exists
    status_reports        \* video_id -> the statuses GET /video/analysis/{id} reported

threatVars == <<detections, results, analysed>>

videoVars == <<mode, iou_match_threshold, previous_detections, prev_at_entry,
               model_out, frame_result, current, smoothed>>

riskVars == <<risk_input, risk_shape, risk_score>>

calibVars == <<temp_scale, calibrations>>

iouVars == <<rect_a, rect_b, iou_out>>

\* the variables of the components added after the four above
classifierVars == <<cls_name, cls_conf, cls_bbox, cls_out, cls_return>>

reportVars == <<report_input, report>>

liveVars == <<active_connections, video_processors, client_locks, client_frame_counts,
              client_last_ts_ms, processor_state, handlers, inbox, results_sent,
              rest_responses, now_ms, frames_submitted, processor_users>>

detectVars == <<det_model, det_is_yolo11, det_class_thresholds, det_frame, det_boxes,
                det_has_ids, det_return>>

taskVars == <<gcp, analysis_tasks, workers, local_files, status_reports>>

lateVars == <<detectVars, taskVars>>

otherVars == <<iouVars, classifierVars, reportVars, liveVars, lateVars>>

vars == <<threatVars, videoVars, riskVars, calibVars, otherVars>>

----------------------------------------------------------------------------
(* Bounds of the model *)

\* longest detection list handed to ThreatAnalyzer.analyze
MaxDets == 3

\* longest detection list of a video frame (model output, previous_detections)
MaxFrameDets == 2

\* confidences handed to the calibrator have odds 2^j : 1 with |j| <= MaxOdds
MaxOdds == 3

\* number of _calibrate_conf calls that are recorded
MaxCalibrations == 2

\* rectangle corners lie on the grid 0..MaxCoord
MaxCoord == 2

\* WebSocket connections opened on /feed/{client_id}
MaxConns == 2

\* frames and requests the live endpoints receive
MaxLiveFrames == 2

\* the clock advances MaxTicks times, one MIN_INTERVAL_MS each
MaxTicks == 1

\* longest detections list handed to generate_report
MaxReportDets == 2

----------------------------------------------------------------------------
(* Python helpers *)

None == <<>>

Some(v) == <<v>>

\* d.get(k): the value as an optional
DictGet(d, k) == IF k \in DOMAIN d THEN Some(d[k]) ELSE None

\* d.get(k, default)
DictGetOr(d, k, default) == IF k \in DOMAIN d THEN d[k] ELSE default

\* d[k] = v
DictSet(d, k, v) == (k :> v) @@ d

\* str.lower(), on the labels the model uses
Lower(s) ==
    CASE s = "Gun" -> "gun"
      [] s = "Person" -> "person"
      [] s = "Scissors" -> "scissors"
      [] OTHER -> s

Max(a, b) == IF a >= b THEN a ELSE b

Min(a, b) == IF a <= b THEN a ELSE b

\* confidence n/10 in millionths
Tenths(n) == n * 10^5

\* rationals <<num, den>>, den > 0
RatGT(r, s) == r[1] * s[2] > s[1] * r[2]

RatGE(r, s) == r[1] * s[2] >= s[1] * r[2]

RatEQ(r, s) == r[1] * s[2] = s[1] * r[2]

RECURSIVE GCD(_, _)
GCD(a, b) == IF b = 0 THEN a ELSE GCD(b, a % b)

\* a rational in lowest terms
RatNorm(r) ==
    LET g == GCD(IF r[1] < 0 THEN 0 - r[1] ELSE r[1], r[2])
    IN  <<r[1] \div g, r[2] \div g>>

RatAdd(r, s) == RatNorm(<<r[1] * s[2] + s[1] * r[2], r[2] * s[2]>>)

RatMul(r, s) == RatNorm(<<r[1] * s[1], r[2] * s[2]>>)

RatMin(r, s) == IF RatGE(s, r) THEN r ELSE s

RatMax(r, s) == IF RatGE(r, s) THEN r ELSE s

\* a confidence in millionths as a rational
ConfRat(c) == RatNorm(<<c, 10^6>>)

\* the positions from i on at which a list of booleans holds TRUE, in list order
RECURSIVE IdxWhere(_, _)
IdxWhere(flags, i) ==
    IF i > Len(flags) THEN <<>>
    ELSE (IF flags[i] THEN <<i>> ELSE <<>>) \o IdxWhere(flags, i + 1)

----------------------------------------------------------------------------
(* models/threat_analyzer.py *)

\* ThreatAnalyzer.__init__: iou_threshold default 0.1
iou_threshold == <<1, 10>>

\* the hard-negative overlap bound 0.5 of analyze
hard_negative_iou == <<1, 2>>

non_threat_objects == {"cell phone", "smartphone", "remote", "drill"}

lethal_weapons == {"handgun", "rifle", "knife", "gun", "weapon", "pistol"}

person_classes == {"person", "people"}

\* ThreatAnalyzer._calculate_iou: 0 when the union is not positive
_calculate_iou(boxA, boxB) ==
    LET xA == Max(boxA[1], boxB[1])
        yA == Max(boxA[2], boxB[2])
        xB == Min(boxA[3], boxB[3])
        yB == Min(boxA[4], boxB[4])
        interArea == Max(0, xB - xA) * Max(0, yB - yA)
        areaA == (boxA[3] - boxA[1]) * (boxA[4] - boxA[2])
        areaB == (boxB[3] - boxB[1]) * (boxB[4] - boxB[2])
    IN  IF areaA + areaB - interArea <= 0 THEN <<0, 1>>
        ELSE <<interArea, areaA + areaB - interArea>>

\* d.get('class_name', '').lower()
ClassOf(d) == Lower(DictGetOr(d, "class_name", ""))

persons(dets) == IdxWhere([i \in 1..Len(dets) |-> ClassOf(dets[i]) \in person_classes], 1)

threats(dets) == IdxWhere([i \in 1..Len(dets) |-> ClassOf(dets[i]) \in lethal_weapons], 1)

hard_negatives(dets) ==
    IdxWhere([i \in 1..Len(dets) |-> ClassOf(dets[i]) \in non_threat_objects], 1)

\* mutant of SuppressedBy: neg['confidence'] >= threat['confidence']
SuppressedByTie(threat, neg) ==
    /\ RatGT(_calculate_iou(threat["bbox"], neg["bbox"]), hard_negative_iou)
    /\ neg["confidence"] >= threat["confidence"]

\* Step 4, the test of one hard negative against one threat
SuppressedBy(threat, neg) ==
    /\ RatGT(_calculate_iou(threat["bbox"], neg["bbox"]), hard_negative_iou)
    /\ neg["confidence"] > threat["confidence"]

\* Step 4: the loop over hard_negatives, with its break
is_false_positive(dets, t) ==
    \E k \in 1..Len(hard_negatives(dets)) :
        SuppressedBy(dets[t], dets[hard_negatives(dets)[k]])

\* mutant of Interacts: overlap >= self.iou_threshold
InteractsAtThreshold(threat, person) ==
    RatGE(_calculate_iou(threat["bbox"], person["bbox"]), iou_threshold)

\* Step 3, the test of one person against one threat
Interacts(threat, person) ==
    RatGT(_calculate_iou(threat["bbox"], person["bbox"]), iou_threshold)

\* variant of ArmedScan: the loop does not break, the last sufficient person wins
RECURSIVE ArmedScanLast(_, _, _)
ArmedScanLast(dets, t, k) ==
    IF k > Len(persons(dets)) THEN 0
    ELSE IF ArmedScanLast(dets, t, k + 1) > 0 THEN ArmedScanLast(dets, t, k + 1)
    ELSE IF Interacts(dets[t], dets[persons(dets)[k]]) THEN k
    ELSE 0

\* Step 3: the position in persons at which the loop breaks, 0 when it runs out
RECURSIVE ArmedScan(_, _, _)
ArmedScan(dets, t, k) ==
    IF k > Len(persons(dets)) THEN 0
    ELSE IF Interacts(dets[t], dets[persons(dets)[k]]) THEN k
    ELSE ArmedScan(dets, t, k + 1)

\* the body of the for-threat loop: the threat dict as the iteration leaves it
AnalyzeThreat(dets, t) ==
    LET threat == dets[t]
        k == ArmedScan(dets, t, 1)
    IN  IF is_false_positive(dets, t)
        THEN DictSet(threat, "status", "False Positive Filtered")
        ELSE IF k > 0
        THEN DictSet(DictSet(DictSet(threat,
                 "alert_level", "CRITICAL"),
                 "event_type", "Armed Suspect Alert"),
                 "associated_person_id", DictGet(dets[persons(dets)[k]], "track_id"))
        ELSE DictSet(DictSet(threat,
                 "alert_level", "WARNING"),
                 "event_type", "Unattended Weapon Warning")

\* mutant of analyze: the `continue` after a false positive is missing, so the
\* suppressed threat is annotated and appended like the others
analyzeWithoutContinue(dets) ==
    [ detections |-> [i \in 1..Len(dets) |->
                        IF ClassOf(dets[i]) \in lethal_weapons
                        THEN AnalyzeThreat(dets, i) ELSE dets[i]],
      results |-> threats(dets) ]

\* ThreatAnalyzer.analyze.  An iteration writes only status, alert_level,
\* event_type and associated_person_id of its own threat and reads only
\* class_name, bbox, confidence and track_id, so the iterations are independent.
analyze(dets) ==
    [ detections |-> [i \in 1..Len(dets) |->
                        IF ClassOf(dets[i]) \in lethal_weapons
                        THEN AnalyzeThreat(dets, i) ELSE dets[i]],
      results |-> IdxWhere([i \in 1..Len(dets) |->
                        /\ ClassOf(dets[i]) \in lethal_weapons
                        /\ ~is_false_positive(dets, i)], 1) ]

----------------------------------------------------------------------------
(* models/video_processor.py *)

\* _iou: 0.0 when the union is not positive
\* variant of _iou: the intersection is divided by the first rectangle's area
_iou_over_first(box_a, box_b) ==
    LET x1 == Max(box_a[1], box_b[1])
        y1 == Max(box_a[2], box_b[2])
        x2 == Min(box_a[3], box_b[3])
        y2 == Min(box_a[4], box_b[4])
        inter == Max(0, x2 - x1) * Max(0, y2 - y1)
        area_a == Max(0, box_a[3] - box_a[1]) * Max(0, box_a[4] - box_a[2])
    IN  IF area_a > 0 THEN <<inter, area_a>> ELSE <<0, 1>>

_iou(box_a, box_b) ==
    LET x1 == Max(box_a[1], box_b[1])
        y1 == Max(box_a[2], box_b[2])
        x2 == Min(box_a[3], box_b[3])
        y2 == Min(box_a[4], box_b[4])
        inter == Max(0, x2 - x1) * Max(0, y2 - y1)
        area_a == Max(0, box_a[3] - box_a[1]) * Max(0, box_a[4] - box_a[2])
        area_b == Max(0, box_b[3] - box_b[1]) * Max(0, box_b[4] - box_b[2])
        denom == area_a + area_b - inter
    IN  IF denom > 0 THEN <<inter, denom>> ELSE <<0, 1>>

\* VideoProcessor.__init__: SMOOTHING_ALPHA default 0.6
smoothing_alpha == <<6, 10>>

\* VideoProcessor.__init__: TRACK_IOU_THRESHOLD default 0.3
default_iou_match_threshold == <<3, 10>>

\* variant of class_risk_weight: crowbar weighs 0.5
class_risk_weight_light_crowbar ==
    [ gun |-> <<1, 1>>, knife |-> <<9, 10>>, weapon |-> <<95, 100>>,
      pistol |-> <<1, 1>>, rifle |-> <<1, 1>>, firearm |-> <<1, 1>>,
      machete |-> <<95, 100>>, axe |-> <<9, 10>>, scissors |-> <<5, 10>>,
      bottle |-> <<3, 10>>, hammer |-> <<5, 10>>, crowbar |-> <<5, 10>>,
      baseball_bat |-> <<7, 10>> ]

\* VideoProcessor.__init__: default_weights
class_risk_weight ==
    [ gun |-> <<1, 1>>, knife |-> <<9, 10>>, weapon |-> <<95, 100>>,
      pistol |-> <<1, 1>>, rifle |-> <<1, 1>>, firearm |-> <<1, 1>>,
      machete |-> <<95, 100>>, axe |-> <<9, 10>>, scissors |-> <<5, 10>>,
      bottle |-> <<3, 10>>, hammer |-> <<5, 10>>, crowbar |-> <<6, 10>>,
      baseball_bat |-> <<7, 10>> ]

\* mutant of BestMatch: best_iou is not updated, so the last overlapping
\* previous detection wins instead of the one with the largest IoU
RECURSIVE BestMatchLast(_, _, _, _)
BestMatchLast(det, prevs, i, best) ==
    IF i > Len(prevs) THEN best
    ELSE IF RatGT(_iou(det["bbox"], prevs[i]["bbox"]), <<0, 1>>)
    THEN BestMatchLast(det, prevs, i + 1,
                       [iou |-> _iou(det["bbox"], prevs[i]["bbox"]), idx |-> i])
    ELSE BestMatchLast(det, prevs, i + 1, best)

\* _smooth_confidence, the inner loop from position i on: best_iou and best_idx
\* (0 for the code's -1) when it ends
RECURSIVE BestMatch(_, _, _, _)
BestMatch(det, prevs, i, best) ==
    IF i > Len(prevs) THEN best
    ELSE IF RatGT(_iou(det["bbox"], prevs[i]["bbox"]), best.iou)
    THEN BestMatch(det, prevs, i + 1,
                   [iou |-> _iou(det["bbox"], prevs[i]["bbox"]), idx |-> i])
    ELSE BestMatch(det, prevs, i + 1, best)

\* alpha * prev_conf + (1 - alpha) * cur_conf, on millionths
Ema(prev_conf, cur_conf) ==
    (smoothing_alpha[1] * prev_conf
       + (smoothing_alpha[2] - smoothing_alpha[1]) * cur_conf) \div smoothing_alpha[2]

\* _smooth_confidence, the body of the loop over current: det as it is appended
SmoothOne(det, prevs, threshold) ==
    LET best == BestMatch(det, prevs, 1, [iou |-> <<0, 1>>, idx |-> 0])
        prev == prevs[best.idx]
        ema == DictSet(det, "confidence",
                       Ema(DictGetOr(prev, "confidence", 0), DictGetOr(det, "confidence", 0)))
    IN  IF best.idx >= 1 /\ RatGE(best.iou, threshold)
        THEN IF "track_id" \in DOMAIN prev
             THEN DictSet(ema, "track_id", prev["track_id"])
             ELSE ema
        ELSE det

\* VideoProcessor._smooth_confidence
_smooth_confidence(prevs, threshold, cur) ==
    IF prevs = <<>> THEN cur
    ELSE [k \in 1..Len(cur) |-> SmoothOne(cur[k], prevs, threshold)]

\* mutant of _assess_risk: area_ratio is not capped at 1.0
_assess_risk_uncapped_area(det, frame_shape) ==
    LET class_name == Lower(DictGetOr(det, "class_name", ""))
        conf == ConfRat(DictGetOr(det, "confidence", 0))
        bbox == DictGetOr(det, "bbox", <<0, 0, 0, 0>>)
        area == Max(0, bbox[3] - bbox[1]) * Max(0, bbox[4] - bbox[2])
        frame_area == Max(1, frame_shape[2] * frame_shape[1])
        w_class == DictGetOr(class_risk_weight, class_name, <<2, 10>>)
        raw_score == RatAdd(RatAdd(RatAdd(<<4, 10>>, w_class),
                                   RatMul(<<3, 10>>, <<area, frame_area>>)),
                            RatMul(<<3, 10>>, conf))
    IN  RatMax(<<0, 1>>, RatMin(<<1, 1>>, raw_score))

\* VideoProcessor._assess_risk; frame_shape is (h, w, channels)
_assess_risk(det, frame_shape) ==
    LET class_name == Lower(DictGetOr(det, "class_name", ""))
        conf == ConfRat(DictGetOr(det, "confidence", 0))
        bbox == DictGetOr(det, "bbox", <<0, 0, 0, 0>>)
        h == frame_shape[1]
        w == frame_shape[2]
        area == Max(0, bbox[3] - bbox[1]) * Max(0, bbox[4] - bbox[2])
        frame_area == Max(1, w * h)
        area_ratio == RatMin(<<1, 1>>, RatNorm(<<area, frame_area>>))
        base_w == <<4, 10>>
        w_class == DictGetOr(class_risk_weight, class_name, <<2, 10>>)
        w_area == <<3, 10>>
        w_conf == <<3, 10>>
        raw_score == RatAdd(RatAdd(RatAdd(base_w, w_class), RatMul(w_area, area_ratio)),
                            RatMul(w_conf, conf))
    IN  RatMax(<<0, 1>>, RatMin(<<1, 1>>, raw_score))

----------------------------------------------------------------------------
(* models/crime_detection_model.py: _calibrate_conf *)

\* math.exp raises OverflowError from e^709.79 = 2^1024 on
ExpOverflow == 1024

\* the floor 1e-6 of the temperature, as its inverse
TempFloorInv == 1000000

\* log2 of a positive rational that is a power of two
RECURSIVE Log2(_)
Log2(r) ==
    IF r[1] = r[2] THEN 0
    ELSE IF r[1] > r[2] THEN 1 + Log2(<<r[1], 2 * r[2]>>)
    ELSE Log2(<<2 * r[1], r[2]>>) - 1

\* math.log(conf / (1.0 - conf)), in units of ln 2, for 0 < conf < 1
Logit2(conf) == Log2(<<conf[1], conf[2] - conf[1]>>)

\* max(1e-6, self.temp_scale)
EffectiveTemp(t) == RatMax(<<1, TempFloorInv>>, t)

\* -logit / max(1e-6, self.temp_scale), in units of ln 2
ExpArg(conf, t) == (0 - Logit2(conf) * EffectiveTemp(t)[2]) \div EffectiveTemp(t)[1]

\* the model computes -logit / T exactly when it is a whole number of ln 2
Computable(conf, t) ==
    IF conf[1] <= 0 \/ conf[1] >= conf[2] \/ EffectiveTemp(t)[1] = 0 THEN TRUE
    ELSE (Logit2(conf) * EffectiveTemp(t)[2]) % EffectiveTemp(t)[1] = 0

\* the outcome of a call: the returned rational r, or 1 / (1 + 2^e) when sig;
\* exc names the exception that left the call, "" when it returned
Exactly(r) == [sig |-> FALSE, e |-> 0, r |-> r, exc |-> ""]

Sigmoid2(e) == [sig |-> TRUE, e |-> e, r |-> <<0, 1>>, exc |-> ""]

\* the call is left by an exception
Raised(exc) == [sig |-> FALSE, e |-> 0, r |-> <<0, 1>>, exc |-> exc]

\* variant of LinearFallback: conf / max(1e-6, self.temp_scale) without the clamp
LinearFallbackUnclamped(conf, t) ==
    IF EffectiveTemp(t)[1] = 0 THEN Raised("ZeroDivisionError")
    ELSE Exactly(RatNorm(<<conf[1] * EffectiveTemp(t)[2], conf[2] * EffectiveTemp(t)[1]>>))

\* the except branch: conf / max(1e-6, self.temp_scale), clamped to [0, 1];
\* a float division raises ZeroDivisionError on a zero divisor
LinearFallback(conf, t) ==
    IF EffectiveTemp(t)[1] = 0 THEN Raised("ZeroDivisionError")
    ELSE Exactly(RatMax(<<0, 1>>, RatMin(<<1, 1>>,
            RatNorm(<<conf[1] * EffectiveTemp(t)[2], conf[2] * EffectiveTemp(t)[1]>>))))

\* CrimeDetectionModel._calibrate_conf, with self.temp_scale = t.  The scaled
\* value 1 / (1 + exp(x)) lies in [0, 1], so the clamp after it changes nothing.
_calibrate_conf(conf, t) ==
    IF conf[1] <= 0 THEN Exactly(<<0, 1>>)
    ELSE IF conf[1] >= conf[2] THEN Exactly(<<1, 1>>)
    ELSE IF EffectiveTemp(t)[1] = 0 THEN LinearFallback(conf, t)
    ELSE IF ExpArg(conf, t) >= ExpOverflow THEN LinearFallback(conf, t)
    ELSE Sigmoid2(ExpArg(conf, t))

\* v <= w for calibrated values; rationals here are in [0, 1] with
\* denominators below 2^20, so 2^e decides the comparison alone when |e| > 20
CalLeq(v, w) ==
    IF ~v.sig /\ ~w.sig THEN RatGE(w.r, v.r)
    ELSE IF v.sig /\ w.sig THEN v.e >= w.e
    ELSE IF v.sig
    THEN (IF v.e > 20 THEN w.r[1] >= 1
          ELSE IF v.e < 0 - 20 THEN w.r[1] >= w.r[2]
          ELSE IF v.e >= 0 THEN w.r[2] <= w.r[1] * (1 + 2^v.e)
          ELSE w.r[2] * 2^(0 - v.e) <= w.r[1] * (2^(0 - v.e) + 1))
    ELSE (IF w.e > 20 THEN v.r[1] <= 0
          ELSE IF w.e < 0 - 20 THEN v.r[1] < v.r[2]
          ELSE IF w.e >= 0 THEN v.r[1] * (1 + 2^w.e) <= v.r[2]
          ELSE v.r[1] * (2^(0 - w.e) + 1) <= v.r[2] * 2^(0 - w.e))

----------------------------------------------------------------------------
(* models/crime_detection_model.py: _map_to_dangerous_object *)
(* A Python str is the sequence of its characters.                         *)

upper_case ==
    << "A", "B", "C", "D", "E", "F", "G", "H", "I", "J", "K", "L", "M",
       "N", "O", "P", "Q", "R", "S", "T", "U", "V", "W", "X", "Y", "Z" >>

lower_case ==
    << "a", "b", "c", "d", "e", "f", "g", "h", "i", "j", "k", "l", "m",
       "n", "o", "p", "q", "r", "s", "t", "u", "v", "w", "x", "y", "z" >>

\* str.lower()
lower(s) ==
    [i \in 1..Len(s) |->
        IF \E k \in 1..Len(upper_case) : upper_case[k] = s[i]
        THEN lower_case[CHOOSE k \in 1..Len(upper_case) : upper_case[k] = s[i]]
        ELSE s[i]]

\* sub in s
Contains(sub, s) ==
    \E i \in 0..(Len(s) - Len(sub)) : SubSeq(s, i + 1, i + Len(sub)) = sub

\* variant of dangerous_objects: the 'weapon' category is scanned first
dangerous_objects_weapon_first ==
    <<
    \* 'weapon'
    [ type |-> <<"w", "e", "a", "p", "o", "n">>,
      variations |-> <<
        <<"w", "e", "a", "p", "o", "n">>,
        <<"g", "u", "n">>,
        <<"k", "n", "i", "f", "e">>,
        <<"p", "i", "s", "t", "o", "l">>,
        <<"r", "i", "f", "l", "e">>,
        <<"f", "i", "r", "e", "a", "r", "m">>,
        <<"b", "l", "a", "d", "e">>,
        <<"d", "a", "g", "g", "e", "r">>,
        <<"s", "w", "o", "r", "d">>,
        <<"h", "a", "n", "d", "g", "u", "n">>,
        <<"r", "e", "v", "o", "l", "v", "e", "r">>,
        <<"s", "t", "i", "c", "k">>,
        <<"p", "i", "p", "e">> >> ],
    \* 'knife'
    [ type |-> <<"k", "n", "i", "f", "e">>,
      variations |-> <<
        <<"k", "n", "i", "f", "e">>,
        <<"b", "l", "a", "d", "e">>,
        <<"d", "a", "g", "g", "e", "r">>,
        <<"s", "w", "o", "r", "d">>,
        <<"c", "u", "t", "t", "i", "n", "g">>,
        <<"s", "h", "a", "r", "p">>,
        <<"r", "a", "z", "o", "r">> >> ],
    \* 'gun'
    [ type |-> <<"g", "u", "n">>,
      variations |-> <<
        <<"g", "u", "n">>,
        <<"p", "i", "s", "t", "o", "l">>,
        <<"r", "i", "f", "l", "e">>,
        <<"f", "i", "r", "e", "a", "r", "m">>,
        <<"w", "e", "a", "p", "o", "n">>,
        <<"h", "a", "n", "d", "g", "u", "n">>,
        <<"r", "e", "v", "o", "l", "v", "e", "r">>,
        <<"s", "h", "o", "t", "g", "u", "n">>,
        <<"r", "i", "f", "l", "e">>,
        <<"m", "a", "c", "h", "i", "n", "e", " ", "g", "u", "n">>,
        <<"s", "u", "b", "m", "a", "c", "h", "i", "n", "e">>,
        <<"g", "l", "o", "c", "k">>,
        <<"b", "e", "r", "e", "t", "t", "a">> >> ],
    \* 'scissors'
    [ type |-> <<"s", "c", "i", "s", "s", "o", "r", "s">>,
      variations |-> <<
        <<"s", "c", "i", "s", "s", "o", "r", "s">>,
        <<"s", "h", "e", "a", "r", "s">>,
        <<"s", "c", "i", "s", "s", "o", "r">> >> ],
    \* 'bottle'
    [ type |-> <<"b", "o", "t", "t", "l", "e">>,
      variations |-> <<
        <<"b", "o", "t", "t", "l", "e">>,
        <<"g", "l", "a", "s", "s", "_", "b", "o", "t", "t", "l", "e">>,
        <<"b", "r", "o", "k", "e", "n", "_", "b", "o", "t", "t", "l", "e">>,
        <<"w", "i", "n", "e", " ", "b", "o", "t", "t", "l", "e">>,
        <<"b", "e", "e", "r", " ", "b", "o", "t", "t", "l", "e">> >> ],
    \* 'hammer'
    [ type |-> <<"h", "a", "m", "m", "e", "r">>,
      variations |-> <<
        <<"h", "a", "m", "m", "e", "r">>,
        <<"m", "a", "l", "l", "e", "t">>,
        <<"s", "l", "e", "d", "g", "e", "h", "a", "m", "m", "e", "r">>,
        <<"t", "o", "o", "l">> >> ],
    \* 'crowbar'
    [ type |-> <<"c", "r", "o", "w", "b", "a", "r">>,
      variations |-> <<
        <<"c", "r", "o", "w", "b", "a", "r">>,
        <<"p", "r", "y", "_", "b", "a", "r">>,
        <<"p", "r", "y", "b", "a", "r">>,
        <<"w", "r", "e", "c", "k", "i", "n", "g", " ", "b", "a", "r">> >> ],
    \* 'baseball_bat'
    [ type |-> <<"b", "a", "s", "e", "b", "a", "l", "l", "_", "b", "a", "t">>,
      variations |-> <<
        <<"b", "a", "s", "e", "b", "a", "l", "l", "_", "b", "a", "t">>,
        <<"b", "a", "t">>,
        <<"c", "l", "u", "b">>,
        <<"b", "a", "s", "e", "b", "a", "l", "l", " ", "b", "a", "t">>,
        <<"c", "r", "i", "c", "k", "e", "t", " ", "b", "a", "t">> >> ],
    \* 'axe'
    [ type |-> <<"a", "x", "e">>,
      variations |-> <<
        <<"a", "x", "e">>,
        <<"h", "a", "t", "c", "h", "e", "t">>,
        <<"t", "o", "m", "a", "h", "a", "w", "k">> >> ],
    \* 'machete'
    [ type |-> <<"m", "a", "c", "h", "e", "t", "e">>,
      variations |-> <<
        <<"m", "a", "c", "h", "e", "t", "e">>,
        <<"c", "l", "e", "a", "v", "e", "r">>,
        <<"c", "h", "o", "p", "p", "e", "r">> >> ]
    >>

\* self.dangerous_objects: canonical category -> alias substrings, in the
\* order the dict literal lists them (the order `for ... in .items()` follows)
dangerous_objects ==
    <<
    \* 'knife'
    [ type |-> <<"k", "n", "i", "f", "e">>,
      variations |-> <<
        <<"k", "n", "i", "f", "e">>,
        <<"b", "l", "a", "d", "e">>,
        <<"d", "a", "g", "g", "e", "r">>,
        <<"s", "w", "o", "r", "d">>,
        <<"c", "u", "t", "t", "i", "n", "g">>,
        <<"s", "h", "a", "r", "p">>,
        <<"r", "a", "z", "o", "r">> >> ],
    \* 'gun'
    [ type |-> <<"g", "u", "n">>,
      variations |-> <<
        <<"g", "u", "n">>,
        <<"p", "i", "s", "t", "o", "l">>,
        <<"r", "i", "f", "l", "e">>,
        <<"f", "i", "r", "e", "a", "r", "m">>,
        <<"w", "e", "a", "p", "o", "n">>,
        <<"h", "a", "n", "d", "g", "u", "n">>,
        <<"r", "e", "v", "o", "l", "v", "e", "r">>,
        <<"s", "h", "o", "t", "g", "u", "n">>,
        <<"r", "i", "f", "l", "e">>,
        <<"m", "a", "c", "h", "i", "n", "e", " ", "g", "u", "n">>,
        <<"s", "u", "b", "m", "a", "c", "h", "i", "n", "e">>,
        <<"g", "l", "o", "c", "k">>,
        <<"b", "e", "r", "e", "t", "t", "a">> >> ],
    \* 'weapon'
    [ type |-> <<"w", "e", "a", "p", "o", "n">>,
      variations |-> <<
        <<"w", "e", "a", "p", "o", "n">>,
        <<"g", "u", "n">>,
        <<"k", "n", "i", "f", "e">>,
        <<"p", "i", "s", "t", "o", "l">>,
        <<"r", "i", "f", "l", "e">>,
        <<"f", "i", "r", "e", "a", "r", "m">>,
        <<"b", "l", "a", "d", "e">>,
        <<"d", "a", "g", "g", "e", "r">>,
        <<"s", "w", "o", "r", "d">>,
        <<"h", "a", "n", "d", "g", "u", "n">>,
        <<"r", "e", "v", "o", "l", "v", "e", "r">>,
        <<"s", "t", "i", "c", "k">>,
        <<"p", "i", "p", "e">> >> ],
    \* 'scissors'
    [ type |-> <<"s", "c", "i", "s", "s", "o", "r", "s">>,
      variations |-> <<
        <<"s", "c", "i", "s", "s", "o", "r", "s">>,
        <<"s", "h", "e", "a", "r", "s">>,
        <<"s", "c", "i", "s", "s", "o", "r">> >> ],
    \* 'bottle'
    [ type |-> <<"b", "o", "t", "t", "l", "e">>,
      variations |-> <<
        <<"b", "o", "t", "t", "l", "e">>,
        <<"g", "l", "a", "s", "s", "_", "b", "o", "t", "t", "l", "e">>,
        <<"b", "r", "o", "k", "e", "n", "_", "b", "o", "t", "t", "l", "e">>,
        <<"w", "i", "n", "e", " ", "b", "o", "t", "t", "l", "e">>,
        <<"b", "e", "e", "r", " ", "b", "o", "t", "t", "l", "e">> >> ],
    \* 'hammer'
    [ type |-> <<"h", "a", "m", "m", "e", "r">>,
      variations |-> <<
        <<"h", "a", "m", "m", "e", "r">>,
        <<"m", "a", "l", "l", "e", "t">>,
        <<"s", "l", "e", "d", "g", "e", "h", "a", "m", "m", "e", "r">>,
        <<"t", "o", "o", "l">> >> ],
    \* 'crowbar'
    [ type |-> <<"c", "r", "o", "w", "b", "a", "r">>,
      variations |-> <<
        <<"c", "r", "o", "w", "b", "a", "r">>,
        <<"p", "r", "y", "_", "b", "a", "r">>,
        <<"p", "r", "y", "b", "a", "r">>,
        <<"w", "r", "e", "c", "k", "i", "n", "g", " ", "b", "a", "r">> >> ],
    \* 'baseball_bat'
    [ type |-> <<"b", "a", "s", "e", "b", "a", "l", "l", "_", "b", "a", "t">>,
      variations |-> <<
        <<"b", "a", "s", "e", "b", "a", "l", "l", "_", "b", "a", "t">>,
        <<"b", "a", "t">>,
        <<"c", "l", "u", "b">>,
        <<"b", "a", "s", "e", "b", "a", "l", "l", " ", "b", "a", "t">>,
        <<"c", "r", "i", "c", "k", "e", "t", " ", "b", "a", "t">> >> ],
    \* 'axe'
    [ type |-> <<"a", "x", "e">>,
      variations |-> <<
        <<"a", "x", "e">>,
        <<"h", "a", "t", "c", "h", "e", "t">>,
        <<"t", "o", "m", "a", "h", "a", "w", "k">> >> ],
    \* 'machete'
    [ type |-> <<"m", "a", "c", "h", "e", "t", "e">>,
      variations |-> <<
        <<"m", "a", "c", "h", "e", "t", "e">>,
        <<"c", "l", "e", "a", "v", "e", "r">>,
        <<"c", "h", "o", "p", "p", "e", "r">> >> ]
    >>

\* weapon_keywords
weapon_keywords ==
    << <<"g", "u", "n">>,
       <<"p", "i", "s", "t", "o", "l">>,
       <<"r", "i", "f", "l", "e">>,
       <<"f", "i", "r", "e", "a", "r", "m">>,
       <<"w", "e", "a", "p", "o", "n">>,
       <<"k", "n", "i", "f", "e">>,
       <<"b", "l", "a", "d", "e">>,
       <<"s", "w", "o", "r", "d">> >>

\* knife_false_positives: one record per key; an area bound the entry does not
\* have is None
knife_false_positives ==
    <<
    \* 'toothbrush'
    [ label |-> <<"t", "o", "o", "t", "h", "b", "r", "u", "s", "h">>,
      min_confidence |-> <<55, 100>>,
      aspect_ratio_range |-> <<<<25, 100>>, <<75, 100>>>>,
      max_area_ratio |-> Some(<<2, 100>>),
      min_area_ratio |-> None ],
    \* 'scissors'
    [ label |-> <<"s", "c", "i", "s", "s", "o", "r", "s">>,
      min_confidence |-> <<45, 100>>,
      aspect_ratio_range |-> <<<<35, 100>>, <<85, 100>>>>,
      max_area_ratio |-> Some(<<3, 100>>),
      min_area_ratio |-> None ],
    \* 'baseball_bat'
    [ label |-> <<"b", "a", "s", "e", "b", "a", "l", "l", "_", "b", "a", "t">>,
      min_confidence |-> <<35, 100>>,
      aspect_ratio_range |-> <<<<8, 100>>, <<35, 100>>>>,
      max_area_ratio |-> None,
      min_area_ratio |-> Some(<<1, 100>>) ],
    \* 'remote'
    [ label |-> <<"r", "e", "m", "o", "t", "e">>,
      min_confidence |-> <<5, 10>>,
      aspect_ratio_range |-> <<<<4, 10>>, <<16, 10>>>>,
      max_area_ratio |-> Some(<<15, 1000>>),
      min_area_ratio |-> None ],
    \* 'cell phone'
    [ label |-> <<"c", "e", "l", "l", " ", "p", "h", "o", "n", "e">>,
      min_confidence |-> <<5, 10>>,
      aspect_ratio_range |-> <<<<5, 10>>, <<2, 1>>>>,
      max_area_ratio |-> Some(<<2, 100>>),
      min_area_ratio |-> None ],
    \* 'hair drier'
    [ label |-> <<"h", "a", "i", "r", " ", "d", "r", "i", "e", "r">>,
      min_confidence |-> <<5, 10>>,
      aspect_ratio_range |-> <<<<3, 10>>, <<8, 10>>>>,
      max_area_ratio |-> Some(<<2, 100>>),
      min_area_ratio |-> None ]
    >>

\* the frame area the false-positive filter assumes: 640 * 640
default_frame_area == 409600

\* class_name_lower in knife_false_positives: the entry's position, 0 if absent
FpIndex(class_name_lower) ==
    IF \E k \in 1..Len(knife_false_positives) :
           knife_false_positives[k].label = class_name_lower
    THEN CHOOSE k \in 1..Len(knife_false_positives) :
           knife_false_positives[k].label = class_name_lower
    ELSE 0

\* variant of HighConfidenceFp: the comparison is strict
HighConfidenceFpStrict(class_name_lower, confidence) ==
    /\ FpIndex(class_name_lower) > 0
    /\ ~RatGE(knife_false_positives[FpIndex(class_name_lower)].min_confidence, confidence)

\* confidence >= knife_false_positives[class_name_lower]['min_confidence']
HighConfidenceFp(class_name_lower, confidence) ==
    /\ FpIndex(class_name_lower) > 0
    /\ RatGE(confidence, knife_false_positives[FpIndex(class_name_lower)].min_confidence)

\* lines 335-359: ar_match and area_match of a bbox against an entry
ShapeMatches(fp_config, bbox) ==
    /\ bbox # None
    /\ LET width == bbox[1][3] - bbox[1][1]
           height == bbox[1][4] - bbox[1][2]
           aspect_ratio == <<height, width>>
           area_ratio == <<width * height, default_frame_area>>
       IN  /\ width > 0 /\ height > 0
           /\ RatGE(aspect_ratio, fp_config.aspect_ratio_range[1])
           /\ RatGE(fp_config.aspect_ratio_range[2], aspect_ratio)
           /\ fp_config.max_area_ratio # None =>
                  RatGE(fp_config.max_area_ratio[1], area_ratio)
           /\ fp_config.min_area_ratio # None =>
                  RatGE(area_ratio, fp_config.min_area_ratio[1])

\* lines 368-377: the scan of the categories from variation j of category i on;
\* Some(category) when a return is reached, None when the loops run out
RECURSIVE MapScan(_, _, _, _)
MapScan(class_name_lower, confidence, i, j) ==
    IF i > Len(dangerous_objects) THEN None
    ELSE IF j > Len(dangerous_objects[i].variations)
    THEN MapScan(class_name_lower, confidence, i + 1, 1)
    ELSE IF Contains(dangerous_objects[i].variations[j], class_name_lower)
    THEN IF /\ dangerous_objects[i].type = <<"k", "n", "i", "f", "e">>
            /\ HighConfidenceFp(class_name_lower, confidence)
         THEN MapScan(class_name_lower, confidence, i, j + 1)
         ELSE Some(dangerous_objects[i].type)
    ELSE MapScan(class_name_lower, confidence, i, j + 1)

\* lines 380-388: TRUE when the keyword loop reaches `return 'weapon'`
RECURSIVE KeywordScan(_, _, _)
KeywordScan(class_name_lower, confidence, k) ==
    IF k > Len(weapon_keywords) THEN FALSE
    ELSE IF Contains(weapon_keywords[k], class_name_lower)
    THEN IF /\ weapon_keywords[k] = <<"k", "n", "i", "f", "e">>
            /\ HighConfidenceFp(class_name_lower, confidence)
         THEN KeywordScan(class_name_lower, confidence, k + 1)
         ELSE TRUE
    ELSE KeywordScan(class_name_lower, confidence, k + 1)

\* CrimeDetectionModel._map_to_dangerous_object
_map_to_dangerous_object(class_name, confidence, bbox) ==
    LET class_name_lower == lower(class_name)
    IN  IF HighConfidenceFp(class_name_lower, confidence)
        THEN IF ShapeMatches(knife_false_positives[FpIndex(class_name_lower)], bbox)
             THEN class_name_lower     \* line 361
             ELSE class_name_lower     \* line 365
        ELSE IF MapScan(class_name_lower, confidence, 1, 1) # None
        THEN MapScan(class_name_lower, confidence, 1, 1)[1]
        ELSE IF KeywordScan(class_name_lower, confidence, 1)
        THEN <<"w", "e", "a", "p", "o", "n">>
        ELSE class_name

\* the return statement of _map_to_dangerous_object a call reaches, named by
\* the debug message logged before it
ReturnSite(class_name, confidence, bbox) ==
    LET class_name_lower == lower(class_name)
    IN  IF HighConfidenceFp(class_name_lower, confidence)
        THEN IF ShapeMatches(knife_false_positives[FpIndex(class_name_lower)], bbox)
             THEN "filtered"           \* line 361
             ELSE "high_confidence"    \* line 365
        ELSE IF MapScan(class_name_lower, confidence, 1, 1) # None
        THEN "mapped"                  \* line 377
        ELSE IF KeywordScan(class_name_lower, confidence, 1)
        THEN "weapon"                  \* line 388
        ELSE "original"                \* line 391

----------------------------------------------------------------------------
(* models/forensic_report_generator.py                                     *)
(* A Python value handed in by a caller is a record: kind says which of    *)
(* the payloads num (a float), str (the characters of a str) and box (the  *)
(* numbers of a list) is meant.  A text is the list of the pieces appended *)
(* to it; a block of fixed prose is represented by the piece it starts     *)
(* with.                                                                    *)

PyNone == [kind |-> "none", num |-> <<0, 1>>, str |-> <<>>, box |-> <<>>]

PyNum(r) == [kind |-> "float", num |-> r, str |-> <<>>, box |-> <<>>]

PyStr(chars) == [kind |-> "str", num |-> <<0, 1>>, str |-> chars, box |-> <<>>]

PyList(b) == [kind |-> "list", num |-> <<0, 1>>, str |-> <<>>, box |-> b]

\* bool(v)
Truthy(v) ==
    CASE v.kind = "none" -> FALSE
      [] v.kind = "float" -> v.num[1] # 0
      [] v.kind = "str" -> v.str # <<>>
      [] v.kind = "list" -> v.box # <<>>

\* the characters of a str as one piece of text
RECURSIVE Text(_)
Text(chars) == IF chars = <<>> THEN "" ELSE Head(chars) \o Text(Tail(chars))

\* what an expression evaluates to: a value, or the message of the exception raised
Ok(v) == [raised |-> FALSE, msg |-> "", val |-> v]

Exc(msg) == [raised |-> TRUE, msg |-> msg, val |-> <<>>]

digits == << "0", "1", "2", "3", "4", "5", "6", "7", "8", "9" >>

IsDigit(c) == \E k \in 1..Len(digits) : digits[k] = c

DigitValue(c) == (CHOOSE k \in 1..Len(digits) : digits[k] = c) - 1

\* the number a run of digits denotes
RECURSIVE DigitsValue(_)
DigitsValue(chars) ==
    IF chars = <<>> THEN 0
    ELSE 10 * DigitsValue(SubSeq(chars, 1, Len(chars) - 1)) + DigitValue(chars[Len(chars)])

\* float(s) for a str: digits with at most one point among them
ParseFloat(chars) ==
    LET points == { i \in 1..Len(chars) : chars[i] = "." }
        point == IF points = {} THEN Len(chars) + 1 ELSE CHOOSE i \in points : TRUE
        whole == SubSeq(chars, 1, point - 1)
        frac == SubSeq(chars, point + 1, Len(chars))
    IN  IF /\ Cardinality(points) <= 1
           /\ Len(whole) + Len(frac) > 0
           /\ \A i \in 1..Len(chars) : i \in points \/ IsDigit(chars[i])
        THEN Ok(RatNorm(<<DigitsValue(whole) * 10^Len(frac) + DigitsValue(frac),
                          10^Len(frac)>>))
        ELSE Exc("could not convert string to float: '" \o Text(chars) \o "'")

\* float(v)
py_float(v) ==
    CASE v.kind = "float" -> Ok(v.num)
      [] v.kind = "str" -> ParseFloat(v.str)
      [] v.kind = "none" ->
            Exc("float() argument must be a string or a real number, not 'NoneType'")
      [] v.kind = "list" ->
            Exc("float() argument must be a string or a real number, not 'list'")

\* ForensicReportGenerator.__init__
low_confidence_threshold == <<50, 100>>

\* lines 85-98: the normalized dict of one detection dict.  The keys copied
\* over by lines 101-103 are read by no section and are left out.
NormalizeOne(det) ==
    LET class_name ==
            IF Truthy(DictGetOr(det, "label", PyNone)) THEN det["label"]
            ELSE IF Truthy(DictGetOr(det, "type", PyNone)) THEN det["type"]
            ELSE IF Truthy(DictGetOr(det, "class_name", PyNone)) THEN det["class_name"]
            ELSE PyStr(<<"u", "n", "k", "n", "o", "w", "n">>)
        confidence == py_float(DictGetOr(det, "confidence", PyNum(<<0, 1>>)))
        risk_value == py_float(DictGetOr(det, "risk_score", PyNum(<<0, 1>>)))
    IN  IF confidence.raised THEN confidence
        ELSE IF risk_value.raised THEN risk_value
        ELSE Ok([ class_name |-> class_name.str,
                  confidence |-> confidence.val,
                  bbox |-> DictGetOr(det, "bbox", PyList(<<0, 0, 0, 0>>)),
                  risk_level |-> DictGetOr(det, "risk_level",
                                           PyStr(<<"U", "n", "k", "n", "o", "w", "n">>)),
                  risk_score |-> risk_value.val ])

\* the loop of _normalize_detections from item i on
RECURSIVE NormalizeFrom(_, _)
NormalizeFrom(items, i) ==
    IF i > Len(items) THEN Ok(<<>>)
    ELSE IF ~items[i].is_dict THEN NormalizeFrom(items, i + 1)
    ELSE IF NormalizeOne(items[i].fields).raised THEN NormalizeOne(items[i].fields)
    ELSE IF NormalizeFrom(items, i + 1).raised THEN NormalizeFrom(items, i + 1)
    ELSE Ok(<<NormalizeOne(items[i].fields).val>> \o NormalizeFrom(items, i + 1).val)

\* ForensicReportGenerator._normalize_detections.  The argument is a list of
\* items, a str (its characters are no dicts) or None (not iterable).
_normalize_detections(detections_value) ==
    CASE detections_value.kind = "list" -> NormalizeFrom(detections_value.items, 1)
      [] detections_value.kind = "str" -> Ok(<<>>)
      [] detections_value.kind = "none" -> Exc("'NoneType' object is not iterable")

\* "=" * 80 and "-" * 80
RECURSIVE Repeat(_, _)
Repeat(s, n) == IF n = 0 THEN "" ELSE s \o Repeat(s, n - 1)

\* the three pieces every section starts with
SectionHeader(title) == << Repeat("=", 80), "\n" \o title \o "\n", Repeat("=", 80) >>

\* n written with at least `width` digits
RECURSIVE ZeroPadded(_, _)
ZeroPadded(n, width) ==
    IF Len(ToString(n)) >= width THEN ToString(n) ELSE "0" \o ZeroPadded(n, width - 1)

\* r * 10^places rounded to the nearest integer, halves to the even one
RoundScaled(r, places) ==
    LET n == r[1] * 10^places
        fl == n \div r[2]
        rem == n % r[2]
    IN  IF 2 * rem > r[2] THEN fl + 1
        ELSE IF 2 * rem < r[2] THEN fl
        ELSE IF fl % 2 = 0 THEN fl ELSE fl + 1

\* f"{r:.<places>f}"
FormatFixed(r, places) ==
    LET q == RoundScaled(r, places)
        a == IF q < 0 THEN 0 - q ELSE q
    IN  (IF q < 0 THEN "-" ELSE "") \o ToString(a \div 10^places) \o "."
            \o ZeroPadded(a % 10^places, places)

\* f"{v}" of a value
Formatted(v) ==
    CASE v.kind = "none" -> "None"
      [] v.kind = "str" -> Text(v.str)
      [] v.kind = "float" -> FormatFixed(v.num, 1)
      [] v.kind = "list" -> "[...]"

\* _is_dangerous_object: dangerous_keywords
dangerous_keywords ==
    << <<"g", "u", "n">>, <<"p", "i", "s", "t", "o", "l">>, <<"r", "i", "f", "l", "e">>,
       <<"f", "i", "r", "e", "a", "r", "m">>, <<"w", "e", "a", "p", "o", "n">>,
       <<"k", "n", "i", "f", "e">>, <<"b", "l", "a", "d", "e">>,
       <<"d", "a", "g", "g", "e", "r">>, <<"s", "w", "o", "r", "d">>,
       <<"m", "a", "c", "h", "e", "t", "e">>,
       <<"s", "c", "i", "s", "s", "o", "r", "s">>, <<"h", "a", "m", "m", "e", "r">>,
       <<"a", "x", "e">>, <<"c", "r", "o", "w", "b", "a", "r">>, <<"b", "a", "t">>,
       <<"b", "o", "t", "t", "l", "e">>, <<"b", "o", "m", "b">>,
       <<"e", "x", "p", "l", "o", "s", "i", "v", "e">> >>

\* ForensicReportGenerator._is_dangerous_object
_is_dangerous_object(class_name) ==
    \E k \in 1..Len(dangerous_keywords) : Contains(dangerous_keywords[k], lower(class_name))

\* d["class_name"].lower() in ["person", "people"]
IsPersonClass(class_name) ==
    lower(class_name) \in { <<"p", "e", "r", "s", "o", "n">>, <<"p", "e", "o", "p", "l", "e">> }

\* len([d for d in detections if keep[d]])
CountWhere(flags) == Cardinality({ i \in DOMAIN flags : flags[i] })

\* sum(d["confidence"] for d in detections)
RECURSIVE SumConfidence(_, _)
SumConfidence(dets, i) ==
    IF i > Len(dets) THEN <<0, 1>>
    ELSE RatAdd(dets[i].confidence, SumConfidence(dets, i + 1))

\* sum(...) / len(detections), for a non-empty list
AvgConfidence(dets) ==
    RatNorm(<<SumConfidence(dets, 1)[1], SumConfidence(dets, 1)[2] * Len(dets)>>)

\* variant of _assess_overall_risk: HIGH needs a mean confidence above 0.70
_assess_overall_risk_strict(dets) ==
    IF dets = <<>> THEN "LOW"
    ELSE LET dangerous_count ==
                 CountWhere([i \in 1..Len(dets) |-> _is_dangerous_object(dets[i].class_name)])
             high_conf_dangerous ==
                 CountWhere([i \in 1..Len(dets) |->
                     /\ _is_dangerous_object(dets[i].class_name)
                     /\ RatGE(dets[i].confidence, <<70, 100>>)])
             avg_confidence == AvgConfidence(dets)
         IN  IF /\ dangerous_count > 0 /\ high_conf_dangerous > 0
                /\ RatGT(avg_confidence, <<70, 100>>)
             THEN "HIGH"
             ELSE IF dangerous_count > 0 \/ RatGE(avg_confidence, <<60, 100>>)
             THEN "MEDIUM"
             ELSE "LOW"

\* ForensicReportGenerator._assess_overall_risk
_assess_overall_risk(dets) ==
    IF dets = <<>> THEN "LOW"
    ELSE LET dangerous_count ==
                 CountWhere([i \in 1..Len(dets) |-> _is_dangerous_object(dets[i].class_name)])
             high_conf_dangerous ==
                 CountWhere([i \in 1..Len(dets) |->
                     /\ _is_dangerous_object(dets[i].class_name)
                     /\ RatGE(dets[i].confidence, <<70, 100>>)])
             avg_confidence == AvgConfidence(dets)
         IN  IF /\ dangerous_count > 0 /\ high_conf_dangerous > 0
                /\ RatGE(avg_confidence, <<70, 100>>)
             THEN "HIGH"
             ELSE IF dangerous_count > 0 \/ RatGE(avg_confidence, <<60, 100>>)
             THEN "MEDIUM"
             ELSE "LOW"

\* len(bbox)
py_len(v) ==
    CASE v.kind = "list" -> Ok(Len(v.box))
      [] v.kind = "str" -> Ok(Len(v.str))
      [] v.kind = "none" -> Exc("object of type 'NoneType' has no len()")
      [] v.kind = "float" -> Exc("object of type 'float' has no len()")

\* ForensicReportGenerator._get_bbox_center: the two coordinates as rationals
_get_bbox_center(bbox) ==
    IF py_len(bbox).raised THEN py_len(bbox)
    ELSE IF py_len(bbox).val < 4 THEN Ok(<< <<0, 1>>, <<0, 1>> >>)
    ELSE IF bbox.kind = "str"
    THEN Exc("unsupported operand type(s) for /: 'str' and 'int'")
    ELSE Ok(<< RatNorm(<<bbox.box[1] + bbox.box[3], 2>>),
               RatNorm(<<bbox.box[2] + bbox.box[4], 2>>) >>)

\* (point1[0] - point2[0])**2 + (point1[1] - point2[1])**2
SquaredDistance(point1, point2) ==
    LET dx == RatAdd(point1[1], <<0 - point2[1][1], point2[1][2]>>)
        dy == RatAdd(point1[2], <<0 - point2[2][1], point2[2][2]>>)
    IN  RatAdd(RatMul(dx, dx), RatMul(dy, dy))

\* f"{math.sqrt(s):.1f}": the tenths nearest to the root, as a rational
RoundedRoot(s) ==
    LET n == CHOOSE n \in 0..(10 * (s[1] + 1)) :
                 /\ n = 0 \/ (2 * n - 1) * (2 * n - 1) * s[2] <= 400 * s[1]
                 /\ 400 * s[1] < (2 * n + 1) * (2 * n + 1) * s[2]
    IN  <<n, 10>>

\* ForensicReportGenerator._bboxes_overlap, for two lists of four numbers
_bboxes_overlap(bbox1, bbox2) ==
    IF Len(bbox1) < 4 \/ Len(bbox2) < 4 THEN FALSE
    ELSE ~( \/ bbox1[3] < bbox2[1] \/ bbox2[3] < bbox1[1]
            \/ bbox1[4] < bbox2[2] \/ bbox2[4] < bbox1[2] )

\* the first outcome of a list that raised, else all their values in one list
RECURSIVE Gather(_)
Gather(outcomes) ==
    IF outcomes = <<>> THEN Ok(<<>>)
    ELSE IF Head(outcomes).raised THEN Head(outcomes)
    ELSE IF Gather(Tail(outcomes)).raised THEN Gather(Tail(outcomes))
    ELSE Ok(Head(outcomes).val \o Gather(Tail(outcomes)).val)

\* variant of _generate_executive_summary: without the branch for an empty list
_generate_executive_summary_counting(dets, timestamp) ==
    SectionHeader("1. EXECUTIVE SUMMARY") \o
    << "\nThe automated forensic analysis system processed the submitted evidence ",
       "at " \o timestamp \o ". The analysis identified " \o ToString(Len(dets))
           \o " distinct detection ",
       "The confidence scores associated with the detections suggest moderate ",
       "\nThis summary presents the initial automated findings. Detailed analysis " >>

\* ForensicReportGenerator._generate_executive_summary
_generate_executive_summary(dets, timestamp) ==
    SectionHeader("1. EXECUTIVE SUMMARY") \o
    ( IF dets = <<>>
      THEN << "\nThe automated analysis system processed the submitted evidence at ",
              timestamp \o ".\n\n",
              "No objects or activities meeting the detection criteria were identified ",
              "during the analysis period. The scene was assessed as presenting minimal ",
              "observable risk indicators based on the available visual evidence.\n" >>
      ELSE LET dangerous == CountWhere([i \in 1..Len(dets) |->
                                _is_dangerous_object(dets[i].class_name)])
               high_confidence == CountWhere([i \in 1..Len(dets) |->
                                RatGE(dets[i].confidence, <<70, 100>>)])
               classes == { dets[i].class_name : i \in 1..Len(dets) }
           IN  << "\nThe automated forensic analysis system processed the submitted evidence ",
                  "at " \o timestamp \o ". The analysis identified " \o ToString(Len(dets))
                      \o " distinct detection ",
                  "event(s) across " \o ToString(Cardinality(classes))
                      \o " unique object class(es).\n\n" >>
               \o ( IF dangerous > 0
                    THEN << "Of particular forensic significance, " \o ToString(dangerous)
                                \o " detection(s) " >>
                    ELSE <<>> )
               \o ( IF high_confidence > 0
                    THEN << ToString(high_confidence) \o " detection(s) were recorded with " >>
                    ELSE << "The confidence scores associated with the detections suggest moderate " >> )
               \o << "\nThis summary presents the initial automated findings. Detailed analysis " >> )

\* lines 178-207: the log entry of detection idx
ObservationEntry(det, idx) ==
    LET coordinates ==
            IF py_len(det.bbox).raised THEN py_len(det.bbox)
            ELSE IF py_len(det.bbox).val < 4 THEN Ok(<<>>)
            ELSE IF _get_bbox_center(det.bbox).raised THEN _get_bbox_center(det.bbox)
            ELSE LET b == det.bbox.box
                     center == _get_bbox_center(det.bbox).val
                     width == IF b[3] >= b[1] THEN b[3] - b[1] ELSE b[1] - b[3]
                     height == IF b[4] >= b[2] THEN b[4] - b[2] ELSE b[2] - b[4]
                 IN  Ok(<< "  Spatial Coordinates:\n",
                           "    - Bounding Box: [" \o FormatFixed(<<b[1], 1>>, 1) \o ", "
                               \o FormatFixed(<<b[2], 1>>, 1) \o ", "
                               \o FormatFixed(<<b[3], 1>>, 1) \o ", "
                               \o FormatFixed(<<b[4], 1>>, 1) \o "]\n",
                           "    - Estimated Center: (" \o FormatFixed(center[1], 1) \o ", "
                               \o FormatFixed(center[2], 1) \o ")\n",
                           "    - Estimated Dimensions: " \o FormatFixed(<<width, 1>>, 1)
                               \o " x " \o FormatFixed(<<height, 1>>, 1) \o " pixels\n" >>)
    IN  Gather(<<
          Ok(<< "\nObservation #" \o ToString(idx) \o ":\n",
                "  Object Class: " \o Text(det.class_name) \o "\n",
                "  Detection Confidence: " \o FormatFixed(det.confidence, 3) \o " ("
                    \o FormatFixed(RatMul(det.confidence, <<100, 1>>), 1) \o "%)\n",
                "  Risk Level Classification: " \o Formatted(det.risk_level) \o "\n" >>),
          coordinates,
          Ok(IF RatGT(low_confidence_threshold, det.confidence)
             THEN << "  Note: This detection falls below the 0.50 confidence threshold " >>
             ELSE <<>>),
          Ok(<< "\n" \o Repeat("-", 80) \o "\n" >>) >>)

\* ForensicReportGenerator._generate_forensic_observation_log
_generate_forensic_observation_log(dets, timestamp) ==
    IF dets = <<>>
    THEN Ok(SectionHeader("2. FORENSIC OBSERVATION LOG")
            \o << "\nNo detections were recorded during the analysis period.\n" >>)
    ELSE Gather(
           << Ok(SectionHeader("2. FORENSIC OBSERVATION LOG")
                 \o << "\nTimestamp of Analysis: " \o timestamp \o "\n",
                       "\nThe following observations are based exclusively on the automated ",
                       Repeat("-", 80) \o "\n" >>) >>
           \o [idx \in 1..Len(dets) |-> ObservationEntry(dets[idx], idx)]
           \o << Ok(<< "\nEnd of Observation Log\n" >>) >>)

\* ForensicReportGenerator._generate_behavioral_interpretation.  The names of
\* the dangerous types are joined in sorted order into one piece of prose,
\* represented here by the piece that precedes them.
_generate_behavioral_interpretation(dets) ==
    SectionHeader("3. BEHAVIORAL INTERPRETATION & THREAT ASSESSMENT") \o
    ( IF dets = <<>>
      THEN << "\nBased on the detected pattern, no significant behavioral indicators ",
              "or threat-related objects were identified. The assessed risk level is: ",
              "LOW.\n" >>
      ELSE LET dangerous == CountWhere([i \in 1..Len(dets) |->
                                _is_dangerous_object(dets[i].class_name)])
               persons_found == CountWhere([i \in 1..Len(dets) |->
                                IsPersonClass(dets[i].class_name)])
               high_confidence == CountWhere([i \in 1..Len(dets) |->
                                RatGE(dets[i].confidence, <<70, 100>>)])
               overall_risk == _assess_overall_risk(dets)
           IN  << "\nBased on the detected pattern, the following interpretations are provided:\n\n" >>
               \o ( IF dangerous > 0
                    THEN << "Object Presence Analysis:\n",
                            "The system detected " \o ToString(dangerous)
                                \o " object(s) classified as " >>
                         \o ( IF persons_found > 0
                              THEN << "Spatial Relationship Analysis:\n" >> ELSE <<>> )
                    ELSE <<>> )
               \o << "Behavioral Indicators:\n" >>
               \o ( IF high_confidence > 0
                    THEN << ToString(high_confidence)
                                \o " detection(s) exhibited high confidence " >>
                    ELSE <<>> )
               \o ( IF Len(dets) > 1
                    THEN << "The presence of multiple detections (" \o ToString(Len(dets))
                                \o " total) may indicate " >>
                    ELSE << "A single detection event was recorded, suggesting a relatively isolated " >> )
               \o << "Threat Assessment:\n",
                     "Based strictly on the detection output, the assessed risk level is: ",
                     overall_risk \o ".\n\n" >>
               \o ( IF overall_risk = "HIGH"
                    THEN << "The combination of detected object types, confidence scores, and " >>
                    ELSE IF overall_risk = "MEDIUM"
                    THEN << "The detection pattern suggests moderate concern. The presence of " >>
                    ELSE << "The detection pattern suggests low immediate concern. However, all " >> )
               \o << "\nNote: This threat assessment is derived exclusively from the automated " >> )

\* max(confidences) and min(confidences)
RECURSIVE MaxConfidence(_, _)
MaxConfidence(dets, i) ==
    IF i = Len(dets) THEN dets[i].confidence
    ELSE RatMax(dets[i].confidence, MaxConfidence(dets, i + 1))

RECURSIVE MinConfidence(_, _)
MinConfidence(dets, i) ==
    IF i = Len(dets) THEN dets[i].confidence
    ELSE RatMin(dets[i].confidence, MinConfidence(dets, i + 1))

\* f"{c:.3f} ({c*100:.1f}%)"
ScoreAndPercent(c) ==
    FormatFixed(c, 3) \o " (" \o FormatFixed(RatMul(c, <<100, 1>>), 1) \o "%)"

\* lines 354-373: the confidence entry of detection idx
ConfidenceEntry(det, idx) ==
    << "\n  Detection #" \o ToString(idx) \o " (" \o Text(det.class_name) \o "):\n",
       "    Confidence Score: " \o FormatFixed(det.confidence, 3) \o "\n",
       IF RatGE(det.confidence, <<80, 100>>)
       THEN "    Interpretation: High confidence. The model indicates strong "
       ELSE IF RatGE(det.confidence, <<50, 100>>)
       THEN "    Interpretation: Medium confidence. The model indicates "
       ELSE "    Interpretation: Low confidence. The model indicates weak " >>

RECURSIVE ConfidenceEntries(_, _)
ConfidenceEntries(dets, idx) ==
    IF idx > Len(dets) THEN <<>>
    ELSE ConfidenceEntry(dets[idx], idx) \o ConfidenceEntries(dets, idx + 1)

\* ForensicReportGenerator._generate_evidential_confidence_analysis
_generate_evidential_confidence_analysis(dets) ==
    SectionHeader("4. EVIDENTIAL CONFIDENCE ANALYSIS") \o
    ( IF dets = <<>>
      THEN << "\nNo detections were recorded; therefore, no confidence analysis is applicable.\n" >>
      ELSE LET high_conf_count == CountWhere([i \in 1..Len(dets) |->
                                RatGE(dets[i].confidence, <<80, 100>>)])
               medium_conf_count == CountWhere([i \in 1..Len(dets) |->
                                /\ RatGE(dets[i].confidence, <<50, 100>>)
                                /\ RatGT(<<80, 100>>, dets[i].confidence)])
               low_conf_count == CountWhere([i \in 1..Len(dets) |->
                                RatGT(<<50, 100>>, dets[i].confidence)])
           IN  << "\nThe following analysis examines the confidence scores provided by the ",
                  "Confidence Score Statistics:\n",
                  "  - Total Detections: " \o ToString(Len(dets)) \o "\n",
                  "  - Average Confidence: " \o ScoreAndPercent(AvgConfidence(dets)) \o "\n",
                  "  - Maximum Confidence: " \o ScoreAndPercent(MaxConfidence(dets, 1)) \o "\n",
                  "  - Minimum Confidence: " \o ScoreAndPercent(MinConfidence(dets, 1)) \o "\n\n",
                  "Confidence Distribution:\n",
                  "  - High Confidence (>=0.80): " \o ToString(high_conf_count) \o " detection(s)\n",
                  "  - Medium Confidence (0.50-0.79): " \o ToString(medium_conf_count)
                      \o " detection(s)\n",
                  "  - Low Confidence (<0.50): " \o ToString(low_conf_count) \o " detection(s)\n\n",
                  "Forensic Interpretation of Confidence Scores:\n\n" >>
               \o ( IF high_conf_count > 0
                    THEN << "High confidence scores (>=0.80) indicate strong model certainty. " >>
                    ELSE <<>> )
               \o ( IF medium_conf_count > 0
                    THEN << "Medium confidence scores (0.50-0.79) indicate moderate model certainty. " >>
                    ELSE <<>> )
               \o ( IF low_conf_count > 0
                    THEN << "Low confidence scores (<0.50) indicate weak model certainty. These " >>
                    ELSE <<>> )
               \o << "Individual Detection Confidence Analysis:\n" >>
               \o ConfidenceEntries(dets, 1)
               \o << "\nImportant Note: Confidence scores reflect the model's internal assessment " >> )

\* lines 419-432: the line about dangerous object d_idx as seen from a person
PersonObjectEntry(person, danger_obj, d_idx) ==
    IF _get_bbox_center(person.bbox).raised THEN _get_bbox_center(person.bbox)
    ELSE IF _get_bbox_center(danger_obj.bbox).raised THEN _get_bbox_center(danger_obj.bbox)
    ELSE LET s == SquaredDistance(_get_bbox_center(person.bbox).val,
                                  _get_bbox_center(danger_obj.bbox).val)
         IN  Ok(<< "    - Distance to " \o Text(danger_obj.class_name) \o " #"
                       \o ToString(d_idx) \o ": ",
                   "approximately " \o FormatFixed(RoundedRoot(s), 1) \o " pixels\n" >>
                \o ( IF /\ person.bbox.kind = "list" /\ danger_obj.bbox.kind = "list"
                        /\ _bboxes_overlap(person.bbox.box, danger_obj.bbox.box)
                     THEN << "      (Bounding boxes overlap - object may be held or " >>
                     ELSE IF RatGT(<<10000, 1>>, s)
                     THEN << "      (Close proximity detected)\n" >>
                     ELSE <<>> ))

\* lines 413-432: the lines about person p_idx
PersonEntry(dets, person, p_idx, dangerous_idx) ==
    IF _get_bbox_center(person.bbox).raised THEN _get_bbox_center(person.bbox)
    ELSE Gather(
           << Ok(<< "\n  Person #" \o ToString(p_idx) \o " (Center: "
                        \o FormatFixed(_get_bbox_center(person.bbox).val[1], 1) \o ", "
                        \o FormatFixed(_get_bbox_center(person.bbox).val[2], 1) \o "):\n" >>) >>
           \o [d_idx \in 1..Len(dangerous_idx) |->
                  PersonObjectEntry(person, dets[dangerous_idx[d_idx]], d_idx)])

\* lines 437-443: the line about dangerous objects i and j, i < j
ObjectPairEntry(obj1, i, obj2, j) ==
    IF _get_bbox_center(obj1.bbox).raised THEN _get_bbox_center(obj1.bbox)
    ELSE IF _get_bbox_center(obj2.bbox).raised THEN _get_bbox_center(obj2.bbox)
    ELSE Ok(<< "  - " \o Text(obj1.class_name) \o " #" \o ToString(i) \o " to "
                   \o Text(obj2.class_name) \o " #" \o ToString(j) \o ": ",
               "approximately "
                   \o FormatFixed(RoundedRoot(SquaredDistance(
                          _get_bbox_center(obj1.bbox).val,
                          _get_bbox_center(obj2.bbox).val)), 1)
                   \o " pixels\n" >>)

\* the pairs (i, j), i < j, of 1..n in the order the two loops visit them
RECURSIVE PairsFrom(_, _, _)
PairsFrom(i, j, n) ==
    IF i >= n THEN <<>>
    ELSE IF j > n THEN PairsFrom(i + 1, i + 2, n)
    ELSE << <<i, j>> >> \o PairsFrom(i, j + 1, n)

\* sum(c[k] for c in all_centers)
RECURSIVE SumCoordinate(_, _, _)
SumCoordinate(centers, k, i) ==
    IF i > Len(centers) THEN <<0, 1>>
    ELSE RatAdd(centers[i][k], SumCoordinate(centers, k, i + 1))

\* ForensicReportGenerator._generate_scene_contextualization
_generate_scene_contextualization(dets) ==
    IF dets = <<>>
    THEN Ok(SectionHeader("5. SCENE CONTEXTUALIZATION")
            \o << "\nNo detections were recorded; therefore, no spatial analysis is applicable.\n" >>)
    ELSE LET persons_idx == IdxWhere([i \in 1..Len(dets) |->
                                IsPersonClass(dets[i].class_name)], 1)
             dangerous_idx == IdxWhere([i \in 1..Len(dets) |->
                                _is_dangerous_object(dets[i].class_name)], 1)
             others == CountWhere([i \in 1..Len(dets) |->
                                /\ ~IsPersonClass(dets[i].class_name)
                                /\ ~_is_dangerous_object(dets[i].class_name)])
             pairs == PairsFrom(1, 2, Len(dangerous_idx))
             all_centers == Gather([i \in 1..Len(dets) |->
                                IF _get_bbox_center(dets[i].bbox).raised
                                THEN _get_bbox_center(dets[i].bbox)
                                ELSE Ok(<< _get_bbox_center(dets[i].bbox).val >>)])
         IN  Gather(
               << Ok(SectionHeader("5. SCENE CONTEXTUALIZATION")
                     \o << "\nThis section describes the spatial relationships among detected objects ",
                           "Detected Entity Summary:\n",
                           "  - Person(s): " \o ToString(Len(persons_idx)) \o " detection(s)\n",
                           "  - Potentially Dangerous Object(s): "
                               \o ToString(Len(dangerous_idx)) \o " detection(s)\n",
                           "  - Other Object(s): " \o ToString(others) \o " detection(s)\n\n" >>) >>
               \o ( IF Len(dets) > 1
                    THEN << Ok(<< "Spatial Relationship Analysis:\n\n" >>) >>
                         \o ( IF persons_idx # <<>> /\ dangerous_idx # <<>>
                              THEN << Ok(<< "Person-Object Spatial Relationships:\n" >>) >>
                                   \o [p_idx \in 1..Len(persons_idx) |->
                                         PersonEntry(dets, dets[persons_idx[p_idx]],
                                                     p_idx, dangerous_idx)]
                              ELSE <<>> )
                         \o ( IF Len(dangerous_idx) > 1
                              THEN << Ok(<< "\nObject-to-Object Spatial Relationships:\n" >>) >>
                                   \o [k \in 1..Len(pairs) |->
                                         ObjectPairEntry(dets[dangerous_idx[pairs[k][1]]],
                                                         pairs[k][1],
                                                         dets[dangerous_idx[pairs[k][2]]],
                                                         pairs[k][2])]
                              ELSE <<>> )
                    ELSE <<>> )
               \o << Ok(<< "\nSpatial Distribution:\n" >>),
                     IF all_centers.raised THEN all_centers
                     ELSE Ok(<< "  - Average detection center: ("
                                    \o FormatFixed(RatNorm(
                                           <<SumCoordinate(all_centers.val, 1, 1)[1],
                                             SumCoordinate(all_centers.val, 1, 1)[2] * Len(dets)>>), 1)
                                    \o ", "
                                    \o FormatFixed(RatNorm(
                                           <<SumCoordinate(all_centers.val, 2, 1)[1],
                                             SumCoordinate(all_centers.val, 2, 1)[2] * Len(dets)>>), 1)
                                    \o ") pixels\n",
                                "  - Detections are distributed across the frame\n" >>),
                     Ok(<< "\nLimitations of Spatial Analysis:\n",
                           "Expert review is recommended to properly contextualize these spatial " >>) >>)

\* ForensicReportGenerator._generate_limitations_disclaimer; now is
\* datetime.utcnow().isoformat()
_generate_limitations_disclaimer(now) ==
    SectionHeader("6. LIMITATIONS & DISCLAIMER")
    \o << "\nThis forensic analysis report is generated by an automated artificial ",
          "1. AI Analysis Limitations:\n",
          "2. Expert Review Requirement:\n",
          "3. Legal and Evidentiary Considerations:\n",
          "4. Technical Limitations:\n",
          "5. Disclaimer of Warranties:\n",
          "By using this report, the recipient acknowledges understanding of these ",
          "Report Generated: " \o now \o "\n",
          "System: Forensic AI Crime Detection System\n",
          "Report Type: Automated Forensic Analysis\n" >>

\* ForensicReportGenerator._generate_error_report
_generate_error_report(error_message, now) ==
    << Repeat("=", 80),
       "\nFORENSIC REPORT GENERATION ERROR\n",
       Repeat("=", 80),
       "\nAn error occurred during report generation: " \o error_message \o "\n",
       "\nPlease review the detection data format and ensure all required fields ",
       "are present.\n",
       "\nReport Generation Timestamp: " \o now \o "\n" >>

\* "\n\n".join(report_sections)
RECURSIVE Joined(_)
Joined(sections) ==
    IF Len(sections) = 1 THEN sections[1]
    ELSE sections[1] \o << "\n\n" >> \o Joined(Tail(sections))

\* lines 48-67: the body of the try block of generate_report
GenerateBody(detection_data, now) ==
    IF detection_data.kind # "dict"
    THEN Exc("'" \o detection_data.kind \o "' object has no attribute 'get'")
    ELSE LET timestamp == IF detection_data.timestamp = None THEN now
                          ELSE detection_data.timestamp[1]
             detections_value == IF detection_data.detections = None
                           THEN [kind |-> "list", items |-> <<>>]
                           ELSE detection_data.detections[1]
             normalized == _normalize_detections(detections_value)
         IN  IF normalized.raised THEN normalized
             ELSE IF _generate_forensic_observation_log(normalized.val, timestamp).raised
             THEN _generate_forensic_observation_log(normalized.val, timestamp)
             ELSE IF _generate_scene_contextualization(normalized.val).raised
             THEN _generate_scene_contextualization(normalized.val)
             ELSE Ok(Joined(<<
                    _generate_executive_summary(normalized.val, timestamp),
                    _generate_forensic_observation_log(normalized.val, timestamp).val,
                    _generate_behavioral_interpretation(normalized.val),
                    _generate_evidential_confidence_analysis(normalized.val),
                    _generate_scene_contextualization(normalized.val).val,
                    _generate_limitations_disclaimer(now) >>))

\* variant of generate_report: without the except clause
generate_report_unguarded(detection_data, now) ==
    GenerateBody(detection_data, now)

\* ForensicReportGenerator.generate_report: what the call evaluates to, the
\* returned text or the exception that leaves it
generate_report(detection_data, now) ==
    IF GenerateBody(detection_data, now).raised
    THEN Ok(_generate_error_report(GenerateBody(detection_data, now).msg, now))
    ELSE GenerateBody(detection_data, now)

----------------------------------------------------------------------------
(* Components at rest *)

ThreatIdle ==
    /\ detections = <<>>
    /\ results = <<>>
    /\ analysed = FALSE

\* a VideoProcessor that has processed no frame
VideoIdle ==
    /\ mode = "video_upload"
    /\ iou_match_threshold = default_iou_match_threshold
    /\ previous_detections = <<>>
    /\ prev_at_entry = <<>>
    /\ model_out = <<>>
    /\ frame_result = None
    /\ current = <<>>
    /\ smoothed = None

RiskIdle ==
    /\ risk_input = <<>>
    /\ risk_shape = <<0, 0, 3>>
    /\ risk_score = None

CalibIdle ==
    /\ temp_scale = <<1, 1>>
    /\ calibrations = {}

\* no IoU comparison made
IouIdle ==
    /\ rect_a = <<0, 0, 0, 0>>
    /\ rect_b = <<0, 0, 0, 0>>
    /\ iou_out = None

\* no _map_to_dangerous_object call made
ClassifierIdle ==
    /\ cls_name = <<>>
    /\ cls_conf = <<0, 1>>
    /\ cls_bbox = None
    /\ cls_out = None
    /\ cls_return = None

\* no generate_report call made
ReportIdle ==
    /\ report_input = [kind |-> "NoneType", timestamp |-> None, detections |-> None]
    /\ report = None

\* minimum interval between processed frames of a client (LIVE_MIN_INTERVAL_MS unset)
MIN_INTERVAL_MS == 120

\* the VideoProcessor created when the module is imported; the one connection k
\* creates is numbered k
module_processor == 0

\* no connection accepted, no request made
LiveIdle ==
    /\ active_connections = <<>>
    /\ video_processors = <<>>
    /\ client_locks = <<>>
    /\ client_frame_counts = <<>>
    /\ client_last_ts_ms = <<>>
    /\ processor_state = (module_processor :> <<>>)
    /\ handlers = [k \in 1..MaxConns |->
                      [pc |-> "new", client_id |-> "", frame |-> <<>>, now_ms |-> 0]]
    /\ inbox = [k \in 1..MaxConns |-> <<>>]
    /\ results_sent = <<>>
    /\ rest_responses = [r \in {1, 2} |-> None]
    /\ now_ms = MIN_INTERVAL_MS
    /\ frames_submitted = 0
    /\ processor_users = (module_processor :> {})

\* no frame handed to CrimeDetectionModel.process_frame
DetectIdle ==
    /\ det_model = "none"
    /\ det_is_yolo11 = TRUE
    /\ det_class_thresholds = <<>>
    /\ det_frame = "frame"
    /\ det_boxes = <<>>
    /\ det_has_ids = FALSE
    /\ det_return = None

\* no video uploaded
TaskIdle ==
    /\ gcp = FALSE
    /\ analysis_tasks = <<>>
    /\ workers = <<>>
    /\ local_files = {}
    /\ status_reports = <<>>

LateIdle == DetectIdle /\ TaskIdle

OthersIdle == IouIdle /\ ClassifierIdle /\ ReportIdle /\ LiveIdle /\ LateIdle

----------------------------------------------------------------------------
(* Frames handed to ThreatAnalyzer.analyze *)

BoxFull == <<0, 0, 10, 10>>

\* the left strip of BoxFull of width w: IoU with BoxFull is w/10
Strip(w) == <<0, 0, w, 10>>

BoxFar == <<20, 20, 30, 30>>

Det(c, b, f) == [class_name |-> c, bbox |-> b, confidence |-> Tenths(f)]

Tracked(d, id) == DictSet(d, "track_id", id)

\* fresh (not yet annotated) detection dicts a caller puts into a frame
ThreatInputs ==
    { Det("knife", BoxFull, 5), Det("knife", BoxFull, 7),
      Det("Gun", BoxFull, 5), Det("knife", BoxFar, 5), Det("pistol", Strip(1), 5) }
    \cup
    { Tracked(Det("person", Strip(1), 9), 1), Tracked(Det("person", Strip(2), 9), 2),
      Tracked(Det("person", Strip(6), 9), 3), Det("Person", Strip(2), 9) }
    \cup
    { Det("cell phone", Strip(5), 7), Det("cell phone", Strip(6), 7),
      Det("remote", Strip(6), 5) }
    \cup
    { Det("Scissors", BoxFull, 9), Det("machete", BoxFull, 9) }

\* all lists over S of length at most n
SeqsUpTo(S, n) == UNION { [1..m -> S] : m \in 0..n }

ThreatInit ==
    /\ detections \in SeqsUpTo(ThreatInputs, MaxDets)
    /\ results = <<>>
    /\ analysed = FALSE
    /\ VideoIdle /\ RiskIdle /\ CalibIdle /\ OthersIdle

\* results = analyzer.analyze(detections)
Analyze ==
    /\ detections' = analyze(detections).detections
    /\ results' = analyze(detections).results
    /\ analysed' = TRUE
    /\ UNCHANGED <<videoVars, riskVars, calibVars, otherVars>>

\* The caller builds the next frame's list from the same dicts: the persons
\* have left the scene, the other dicts are passed on as the last call left them.
Depart ==
    /\ analysed
    /\ persons(detections) # <<>>
    /\ detections' = [k \in 1..(Len(detections) - Len(persons(detections))) |->
                        detections[IdxWhere([i \in 1..Len(detections) |->
                            ClassOf(detections[i]) \notin person_classes], 1)[k]]]
    /\ results' = <<>>
    /\ analysed' = FALSE
    /\ UNCHANGED <<videoVars, riskVars, calibVars, otherVars>>

ThreatNext == Analyze \/ Depart

SpecThreat == ThreatInit /\ [][ThreatNext]_vars

\* _apply_risk_based_confidence_adjustment: the class lists
high_risk_objects == {"gun", "knife", "weapon", "pistol", "rifle", "firearm", "machete"}

medium_risk_objects == {"scissors", "hammer", "baseball_bat", "crowbar", "axe"}

low_risk_objects == {"bottle", "tool"}

\* the body of the inner loop for the person at index p and the dangerous
\* object at index d of dets: the list as the iteration leaves it
AdjustPair(dets, p, d) ==
    LET person == dets[p]
        danger_obj == dets[d]
        iou == _iou(DictGetOr(person, "bbox", <<0, 0, 0, 0>>),
                    DictGetOr(danger_obj, "bbox", <<0, 0, 0, 0>>))
        danger_class == Lower(DictGetOr(danger_obj, "class_name", ""))
        original_conf == DictGetOr(person, "confidence", 0)
        risk_ratio == IF danger_class \in high_risk_objects THEN <<6, 10>> ELSE <<3, 10>>
        adjusted_conf == (original_conf * (risk_ratio[2] - risk_ratio[1])) \div risk_ratio[2]
        boosted == DictSet(danger_obj, "confidence",
                           Min(990000, (danger_obj["confidence"] * 12) \div 10))
        lowered == DictSet(DictSet(DictSet(DictSet(person,
                       "confidence", Max(0, adjusted_conf)),
                       "risk_adjusted", TRUE),
                       "risk_reason", <<"Suspected interaction with ", danger_class>>),
                       "security_score", adjusted_conf)
    IN  IF RatGT(iou, <<0, 1>>)
        THEN [i \in 1..Len(dets) |->
                IF i = p THEN lowered ELSE IF i = d THEN boosted ELSE dets[i]]
        ELSE dets

\* the two nested loops, from the pi-th person and the di-th dangerous object on
RECURSIVE AdjustFrom(_, _, _, _, _)
AdjustFrom(dets, ps, ds, pi, di) ==
    IF pi > Len(ps) THEN dets
    ELSE IF di > Len(ds) THEN AdjustFrom(dets, ps, ds, pi + 1, 1)
    ELSE AdjustFrom(AdjustPair(dets, ps[pi], ds[di]), ps, ds, pi, di + 1)

\* VideoProcessor._apply_risk_based_confidence_adjustment
_apply_risk_based_confidence_adjustment(m, dets) ==
    IF m # "live_analysis" THEN dets
    ELSE AdjustFrom(dets,
            IdxWhere([i \in 1..Len(dets) |->
                Lower(DictGetOr(dets[i], "class_name", "")) \in person_classes], 1),
            IdxWhere([i \in 1..Len(dets) |->
                Lower(DictGetOr(dets[i], "class_name", ""))
                    \in high_risk_objects \cup medium_risk_objects \cup low_risk_objects], 1),
            1, 1)

\* process_frame: det_out of one model detection
Enrich(det, frame_shape) ==
    [ type |-> DictGetOr(det, "class_name", "unknown"),
      class_name |-> DictGetOr(det, "class_name", "unknown"),
      confidence |-> DictGetOr(det, "confidence", 0),
      bbox |-> DictGetOr(det, "bbox", <<0, 0, 0, 0>>),
      risk_score |-> _assess_risk(det, frame_shape),
      track_id |-> DictGetOr(det, "track_id", 0) ]

RECURSIVE SumConf(_, _)
SumConf(dets, i) ==
    IF i > Len(dets) THEN 0 ELSE DictGetOr(dets[i], "confidence", 0) + SumConf(dets, i + 1)

RECURSIVE MaxRisk(_, _)
MaxRisk(dets, idx) ==
    IF Len(idx) = 1 THEN dets[idx[1]]["risk_score"]
    ELSE RatMax(dets[idx[1]]["risk_score"], MaxRisk(dets, Tail(idx)))

\* process_frame: the suspicious_interactions list of an enriched frame
SuspiciousInteractions(enriched) ==
    LET high_risk == IdxWhere([i \in 1..Len(enriched) |->
                                  RatGE(enriched[i]["risk_score"], <<8, 10>>)], 1)
    IN  IF high_risk # <<>>
        THEN << [ type |-> "high_risk_object_detected",
                  count |-> Len(high_risk),
                  max_risk |-> MaxRisk(enriched, high_risk) ] >>
        ELSE <<>>

\* variant of Projection: the entries are stored in reverse order
ProjectionReversed(enriched) ==
    [k \in 1..Len(enriched) |->
        [ bbox |-> DictGetOr(enriched[Len(enriched) + 1 - k], "bbox", <<0, 0, 0, 0>>),
          confidence |-> DictGetOr(enriched[Len(enriched) + 1 - k], "confidence", 0),
          track_id |-> DictGetOr(enriched[Len(enriched) + 1 - k], "track_id", None) ]]

\* process_frame: the projection stored for the next frame
Projection(enriched) ==
    [k \in 1..Len(enriched) |->
        [ bbox |-> DictGetOr(enriched[k], "bbox", <<0, 0, 0, 0>>),
          confidence |-> DictGetOr(enriched[k], "confidence", 0),
          track_id |-> DictGetOr(enriched[k], "track_id", None) ]]

\* VideoProcessor.process_frame, given what self.model.process_frame returned:
\* the returned dict and the new previous_detections
process_frame(m, dets, frame_shape) ==
    LET enriched == _apply_risk_based_confidence_adjustment(m,
                        [k \in 1..Len(dets) |-> Enrich(dets[k], frame_shape)])
    IN  [ result |->
            [ detections |-> enriched,
              suspicious_interactions |-> SuspiciousInteractions(enriched),
              confidence |-> IF enriched # <<>>
                             THEN RatNorm(<<SumConf(enriched, 1), Len(enriched) * 10^6>>)
                             ELSE <<0, 1>> ],
          previous_detections |-> Projection(enriched) ]

----------------------------------------------------------------------------
(* Frames of a video session *)

ModelDet(c, b, f, id) == [class_name |-> c, bbox |-> b, confidence |-> Tenths(f), track_id |-> id]

\* detections CrimeDetectionModel.process_frame hands to VideoProcessor
\* (the keys VideoProcessor reads)
ModelOutputs ==
    { ModelDet("knife", BoxFull, 5, 5), ModelDet("knife", Strip(4), 9, 6),
      ModelDet("person", Strip(2), 9, 1), ModelDet("scissors", Strip(6), 6, 3) }

\* frames in which a person overlaps two knives, and a knife two persons
CrowdedFrames ==
    { << ModelDet("person", Strip(2), 9, 1), ModelDet("knife", BoxFull, 5, 5),
         ModelDet("knife", Strip(4), 9, 6) >>,
      << ModelDet("person", Strip(2), 9, 1), ModelDet("person", Strip(3), 5, 2),
         ModelDet("knife", BoxFull, 5, 5) >> }

\* the detection lists the model returns for the frames of a session
FrameOutputs == SeqsUpTo(ModelOutputs, MaxFrameDets) \cup CrowdedFrames

\* frame.shape: (height, width, channels)
FrameShapes == { <<30, 30, 3>> }

VideoInit ==
    /\ mode \in {"video_upload", "live_analysis"}
    /\ iou_match_threshold = default_iou_match_threshold
    /\ previous_detections = <<>>
    /\ prev_at_entry = <<>>
    /\ model_out = <<>>
    /\ frame_result = None
    /\ current = <<>>
    /\ smoothed = None
    /\ ThreatIdle /\ RiskIdle /\ CalibIdle /\ OthersIdle

\* one call of VideoProcessor.process_frame on the session
ProcessFrame ==
    \E dets \in FrameOutputs, frame_shape \in FrameShapes :
        /\ model_out' = dets
        /\ prev_at_entry' = previous_detections
        /\ frame_result' = Some(process_frame(mode, dets, frame_shape).result)
        /\ previous_detections' = process_frame(mode, dets, frame_shape).previous_detections
        /\ UNCHANGED <<mode, iou_match_threshold, current, smoothed,
                       threatVars, riskVars, calibVars, otherVars>>

VideoNext == ProcessFrame

SpecVideo == VideoInit /\ [][VideoNext]_vars

----------------------------------------------------------------------------
(* Calls of VideoProcessor._smooth_confidence *)

PrevDet(b, f, id) == [bbox |-> b, confidence |-> Tenths(f), track_id |-> id]

\* entries of previous_detections, as process_frame stores them
PrevInputs ==
    { PrevDet(BoxFull, 5, 5), PrevDet(Strip(3), 9, 7), PrevDet(Strip(6), 7, 8),
      PrevDet(BoxFar, 9, 9) }

\* detections of the current frame
CurInputs ==
    { ModelDet("knife", BoxFull, 8, 1), ModelDet("knife", Strip(4), 6, 2),
      ModelDet("person", <<30, 30, 40, 40>>, 9, 3) }

\* TRACK_IOU_THRESHOLD values
MatchThresholds == { <<0, 1>>, default_iou_match_threshold }

SmoothInit ==
    /\ mode = "video_upload"
    /\ iou_match_threshold \in MatchThresholds
    /\ previous_detections \in SeqsUpTo(PrevInputs, MaxFrameDets)
    /\ prev_at_entry = <<>>
    /\ model_out = <<>>
    /\ frame_result = None
    /\ current \in SeqsUpTo(CurInputs, MaxFrameDets)
    /\ smoothed = None
    /\ ThreatIdle /\ RiskIdle /\ CalibIdle /\ OthersIdle

\* smoothed = self._smooth_confidence(current)
Smooth ==
    /\ smoothed' = Some(_smooth_confidence(previous_detections, iou_match_threshold, current))
    /\ UNCHANGED <<mode, iou_match_threshold, previous_detections, prev_at_entry,
                   model_out, frame_result, current, threatVars, riskVars, calibVars,
                   otherVars>>

SmoothNext == Smooth

SpecSmooth == SmoothInit /\ [][SmoothNext]_vars

----------------------------------------------------------------------------
(* Calls of VideoProcessor._assess_risk *)

RiskInputs ==
    { [class_name |-> c, confidence |-> Tenths(f), bbox |-> b] :
        c \in {"gun", "knife", "Scissors", "bottle", "person", "baseball_bat", "crowbar"},
        f \in {0, 5, 10},
        b \in {BoxFull, Strip(2), <<0, 0, 0, 0>>, <<0, 0, 30, 30>>} }

RiskShapes == { <<10, 10, 3>>, <<30, 30, 3>>, <<20, 10, 3>>, <<0, 0, 3>> }

RiskInit ==
    /\ risk_input \in RiskInputs
    /\ risk_shape \in RiskShapes
    /\ risk_score = None
    /\ ThreatIdle /\ VideoIdle /\ CalibIdle /\ OthersIdle

\* risk = self._assess_risk(det, frame.shape)
AssessRisk ==
    /\ risk_score' = Some(_assess_risk(risk_input, risk_shape))
    /\ UNCHANGED <<risk_input, risk_shape, threatVars, videoVars, calibVars, otherVars>>

RiskNext == AssessRisk

SpecRisk == RiskInit /\ [][RiskNext]_vars

----------------------------------------------------------------------------
(* Calls of CrimeDetectionModel._calibrate_conf *)

\* confidences with odds 2^j : 1, and values at and beyond the ends of [0, 1]
ConfGrid ==
    { <<2^j, 2^j + 1>> : j \in 0..MaxOdds } \cup { <<1, 2^j + 1>> : j \in 0..MaxOdds }
    \cup { <<0, 1>>, <<1, 1>>, <<0 - 1, 2>>, <<3, 2>> }

\* CONFIDENCE_TEMP_SCALE values: positive ones, zero and a negative one
TempScales == { <<1, 1>>, <<2, 1>>, <<1, 2>>, <<1, 2000>>, <<1, 2000000>>,
                <<0, 1>>, <<0 - 1, 1>> }

CalibInit ==
    /\ temp_scale \in TempScales
    /\ calibrations = {}
    /\ ThreatIdle /\ VideoIdle /\ RiskIdle /\ OthersIdle

\* calibrated = self._calibrate_conf(conf)
Calibrate ==
    \E conf \in ConfGrid :
        /\ Cardinality(calibrations) < MaxCalibrations
        /\ Computable(conf, temp_scale)
        /\ calibrations' = calibrations \cup
              { [conf |-> conf, out |-> _calibrate_conf(conf, temp_scale)] }
        /\ UNCHANGED <<temp_scale, threatVars, videoVars, riskVars, otherVars>>

CalibNext == Calibrate

SpecCalib == CalibInit /\ [][CalibNext]_vars

----------------------------------------------------------------------------
(* Both IoU implementations on one pair of rectangles *)

\* the sides of a rectangle with x1 <= x2 (y1 <= y2) on the grid 0..MaxCoord
Intervals == { iv \in (0..MaxCoord) \X (0..MaxCoord) : iv[1] <= iv[2] }

Rectangles == { <<h[1], v[1], h[2], v[2]>> : h \in Intervals, v \in Intervals }

IouInit ==
    /\ rect_a \in Rectangles
    /\ rect_b \in Rectangles
    /\ iou_out = None
    /\ ThreatIdle /\ VideoIdle /\ RiskIdle /\ CalibIdle /\ ClassifierIdle
    /\ ReportIdle /\ LiveIdle /\ LateIdle

\* _iou and ThreatAnalyzer._calculate_iou are called on (a, b), (b, a) and (a, a)
CompareBoxes ==
    /\ iou_out = None
    /\ iou_out' = Some([ab |-> _iou(rect_a, rect_b),
                        ba |-> _iou(rect_b, rect_a),
                        aa |-> _iou(rect_a, rect_a),
                        t_ab |-> _calculate_iou(rect_a, rect_b),
                        t_ba |-> _calculate_iou(rect_b, rect_a),
                        t_aa |-> _calculate_iou(rect_a, rect_a)])
    /\ UNCHANGED <<rect_a, rect_b, threatVars, videoVars, riskVars, calibVars,
                   classifierVars, reportVars, liveVars, lateVars>>

IouNext == CompareBoxes

SpecIou == IouInit /\ [][IouNext]_vars

----------------------------------------------------------------------------
(* Calls of the dangerous-object classifier *)

\* results.names[cls_idx]: labels the detector reports
Labels ==
    { <<"k", "n", "i", "f", "e">>,
      <<"K", "n", "i", "f", "e">>,
      <<"p", "o", "c", "k", "e", "t", " ", "k", "n", "i", "f", "e">>,
      <<"g", "u", "n">>,
      <<"H", "a", "n", "d", "g", "u", "n">>,
      <<"w", "e", "a", "p", "o", "n">>,
      <<"p", "i", "s", "t", "o", "l">>,
      <<"s", "c", "i", "s", "s", "o", "r", "s">>,
      <<"S", "c", "i", "s", "s", "o", "r", "s">>,
      <<"b", "a", "s", "e", "b", "a", "l", "l", "_", "b", "a", "t">>,
      <<"w", "i", "n", "e", " ", "b", "o", "t", "t", "l", "e">>,
      <<"s", "l", "e", "d", "g", "e", "h", "a", "m", "m", "e", "r">>,
      <<"t", "o", "m", "a", "h", "a", "w", "k">>,
      <<"m", "a", "c", "h", "e", "t", "e">>,
      <<"s", "t", "i", "c", "k">>,
      <<"c", "o", "m", "b", "a", "t">>,
      <<"c", "a", "t">>,
      <<"C", "a", "t">>,
      <<"p", "e", "r", "s", "o", "n">>,
      <<"P", "e", "r", "s", "o", "n">>,
      <<"t", "o", "o", "t", "h", "b", "r", "u", "s", "h">>,
      <<"c", "e", "l", "l", " ", "p", "h", "o", "n", "e">>,
      <<"R", "e", "m", "o", "t", "e">>,
      <<"h", "a", "i", "r", " ", "d", "r", "i", "e", "r">>,
      <<"t", "r", "a", "f", "f", "i", "c", " ", "l", "i", "g", "h", "t">>,
      <<>> }

\* float(conf) of a box
ClassifierConfs == { <<3, 10>>, <<5, 10>>, <<9, 10>> }

\* the bbox argument: omitted, a small upright box, a box filling the frame
ClassifierBoxes == { None, Some(<<0, 0, 80, 40>>), Some(<<0, 0, 640, 640>>) }

ClassifierInit ==
    /\ cls_name \in Labels
    /\ cls_conf \in ClassifierConfs
    /\ cls_bbox \in ClassifierBoxes
    /\ cls_out = None
    /\ cls_return = None
    /\ ThreatIdle /\ VideoIdle /\ RiskIdle /\ CalibIdle /\ IouIdle /\ ReportIdle
    /\ LiveIdle /\ LateIdle

\* mapped_class = self._map_to_dangerous_object(class_name, float(conf), bbox)
MapToDangerousObject ==
    /\ cls_out = None
    /\ cls_out' = Some(_map_to_dangerous_object(cls_name, cls_conf, cls_bbox))
    /\ cls_return' = Some(ReturnSite(cls_name, cls_conf, cls_bbox))
    /\ UNCHANGED <<cls_name, cls_conf, cls_bbox, threatVars, videoVars, riskVars,
                   calibVars, iouVars, reportVars, liveVars, lateVars>>

ClassifierNext == MapToDangerousObject

SpecClassifier == ClassifierInit /\ [][ClassifierNext]_vars

----------------------------------------------------------------------------
(* Calls of ForensicReportGenerator.generate_report *)

ReportBox == PyList(<<0, 0, 10, 10>>)

\* one item of a detections list: a dict, or something that is no dict
DictItem(fields) == [is_dict |-> TRUE, fields |-> fields]

NonDictItem == [is_dict |-> FALSE, fields |-> [value |-> PyStr(<<"x">>)]]

\* well-formed records, records with missing fields and records with fields
\* of the wrong type
ReportItems ==
    { DictItem([class_name |-> PyStr(<<"k", "n", "i", "f", "e">>),
                confidence |-> PyNum(<<9, 10>>), bbox |-> ReportBox,
                risk_level |-> PyStr(<<"H", "i", "g", "h">>),
                risk_score |-> PyNum(<<9, 10>>)]),
      DictItem([label |-> PyStr(<<"P", "e", "r", "s", "o", "n">>),
                confidence |-> PyNum(<<1, 2>>), bbox |-> PyList(<<0, 0, 4, 10>>)]),
      DictItem([type |-> PyStr(<<"c", "a", "t">>),
                confidence |-> PyStr(<<"0", ".", "2", "5">>),
                bbox |-> PyList(<<20, 20, 30, 31>>)]),
      DictItem([class_name |-> PyStr(<<"g", "u", "n">>), bbox |-> ReportBox]),
      DictItem([class_name |-> PyStr(<<"g", "u", "n">>),
                confidence |-> PyNum(<<7, 10>>)]),
      DictItem([confidence |-> PyNum(<<8, 10>>), bbox |-> ReportBox]),
      DictItem([class_name |-> PyStr(<<"g", "u", "n">>),
                confidence |-> PyStr(<<"h", "i", "g", "h">>), bbox |-> ReportBox]),
      DictItem([class_name |-> PyStr(<<"g", "u", "n">>),
                confidence |-> PyNone, bbox |-> ReportBox]),
      DictItem([class_name |-> PyStr(<<"k", "n", "i", "f", "e">>),
                confidence |-> PyNum(<<3, 10>>), bbox |-> PyNone]),
      DictItem([class_name |-> PyStr(<<"b", "o", "t", "t", "l", "e">>),
                confidence |-> PyNum(<<3, 10>>), bbox |-> PyList(<<1, 2>>)]),
      DictItem([class_name |-> PyStr(<<"k", "n", "i", "f", "e">>),
                confidence |-> PyNum(<<3, 10>>),
                bbox |-> PyStr(<<"a", "b", "c", "d">>)]),
      NonDictItem }

\* the value under "detections": a list, None or a str
DetectionsValues ==
    { [kind |-> "list", items |-> items] : items \in SeqsUpTo(ReportItems, MaxReportDets) }
    \cup { [kind |-> "none", items |-> <<>>], [kind |-> "str", items |-> <<>>] }

\* the detection_data argument: a dict with or without its two keys, or no dict
ReportInputs ==
    { [kind |-> "dict", timestamp |-> ts, detections |-> Some(d)] :
          ts \in {None, Some("2024-01-15T10:30:00")}, d \in DetectionsValues }
    \cup { [kind |-> "dict", timestamp |-> None, detections |-> None] }
    \cup { [kind |-> k, timestamp |-> None, detections |-> None] :
              k \in {"NoneType", "list", "str"} }

\* datetime.utcnow().isoformat() at the time of the call
Clock == { "2026-01-01T00:00:00" }

ReportInit ==
    /\ report_input \in ReportInputs
    /\ report = None
    /\ ThreatIdle /\ VideoIdle /\ RiskIdle /\ CalibIdle /\ IouIdle /\ ClassifierIdle
    /\ LiveIdle /\ LateIdle

\* report = generator.generate_report(detection_data)
GenerateReport ==
    \E now \in Clock :
        /\ report = None
        /\ report' = Some(generate_report(report_input, now))
        /\ UNCHANGED <<report_input, threatVars, videoVars, riskVars, calibVars,
                       iouVars, classifierVars, liveVars, lateVars>>

ReportNext == GenerateReport

SpecReport == ReportInit /\ [][ReportNext]_vars

----------------------------------------------------------------------------
(* routes/live_analysis.py: the WebSocket feed and POST /frame *)

\* del d[k]
DictDel(d, k) == [x \in DOMAIN d \ {k} |-> d[x]]

Connections == 1..MaxConns

ClientIds == {"a", "b"}

\* the clients that post to /frame
RestCallers == {1, 2}

\* a live session: one connection of the feed, or one caller of /frame
WsSession(k) == [endpoint |-> "feed", id |-> k]

RestSession(r) == [endpoint |-> "frame", id |-> r]

\* what the detection model returns for the frames the clients send; a frame
\* that cannot be decoded is None, for which CrimeDetectionModel.process_frame
\* catches its own exception and returns no detection
LiveModelOutputs ==
    { <<>>, <<ModelDet("knife", Strip(4), 9, 6)>> }

\* the body of a POST /frame request
RestBodies ==
    { [kind |-> "no_json", dets |-> <<>>], [kind |-> "no_image", dets |-> <<>>],
      [kind |-> "invalid_image", dets |-> <<>>] }
    \cup { [kind |-> "image", dets |-> d] : d \in LiveModelOutputs }

\* video_processor.process_frame(frame) on instance p
RunProcessor(p, dets) ==
    (p :> process_frame("live_analysis", dets, <<30, 30, 3>>).previous_detections)
        @@ processor_state

UsedBy(p, session) == (p :> (processor_users[p] \cup {session})) @@ processor_users

\* the variables of the components that take no part in the live endpoints
offlineVars == <<threatVars, videoVars, riskVars, calibVars, iouVars, classifierVars,
                 reportVars, lateVars>>

LiveInit == ThreatIdle /\ VideoIdle /\ RiskIdle /\ CalibIdle /\ OthersIdle

\* process_frame is a synchronous call: while a handler is inside it the event
\* loop runs no other coroutine
LoopFree == \A k \in Connections : handlers[k].pc # "processing"

\* lock.locked(): some handler is inside `async with` on the lock of client c
Locked(c) ==
    \E j \in Connections : handlers[j].pc = "processing" /\ handlers[j].client_id = c

\* websocket_endpoint up to its first receive: connection k is accepted for client c
\* (connections are numbered in the order they are accepted)
WsAccept ==
    \E k \in Connections, c \in ClientIds :
        /\ LoopFree
        /\ handlers[k].pc = "new"
        /\ \A j \in 1..(k - 1) : handlers[j].pc # "new"
        /\ active_connections' = DictSet(active_connections, c, k)
        /\ processor_state' = DictSet(processor_state, k, <<>>)
        /\ processor_users' = DictSet(processor_users, k, {})
        /\ video_processors' = DictSet(video_processors, c, k)
        /\ client_locks' = DictSet(client_locks, c, k)
        /\ client_frame_counts' = DictSet(client_frame_counts, c, 0)
        /\ client_last_ts_ms' = DictSet(client_last_ts_ms, c, 0)
        /\ handlers' = [handlers EXCEPT ![k].pc = "receiving", ![k].client_id = c]
        /\ UNCHANGED <<inbox, results_sent, rest_responses, now_ms, frames_submitted,
                       offlineVars>>

\* the client of connection k sends a frame; the server queues it until the
\* handler receives it.  The frame is marked when it arrives while the handler
\* is processing an earlier one.
ClientSends ==
    \E k \in Connections, dets \in LiveModelOutputs :
        /\ handlers[k].pc \in {"receiving", "processing"}
        /\ frames_submitted < MaxLiveFrames
        /\ frames_submitted' = frames_submitted + 1
        /\ inbox' = [inbox EXCEPT ![k] = Append(@,
               [dets |-> dets, arrived_busy |-> handlers[k].pc = "processing"])]
        /\ UNCHANGED <<active_connections, video_processors, client_locks,
                       client_frame_counts, client_last_ts_ms, processor_state,
                       handlers, results_sent, rest_responses, now_ms,
                       processor_users, offlineVars>>

\* the receive loop from receive_bytes to the call of process_frame: the
\* handler of connection k receives the next frame
WsFrame ==
    \E k \in Connections :
        /\ LoopFree
        /\ handlers[k].pc = "receiving"
        /\ inbox[k] # <<>>
        /\ inbox' = [inbox EXCEPT ![k] = Tail(@)]
        /\ LET c == handlers[k].client_id
           IN  IF c \notin DOMAIN client_locks
               THEN \* KeyError, handled by the last except clause
                    handlers' = [handlers EXCEPT ![k].pc = "closed"]
               ELSE IF Locked(c)
               THEN \* dropped: locked
                    UNCHANGED handlers
               ELSE IF now_ms - DictGetOr(client_last_ts_ms, c, 0) < MIN_INTERVAL_MS
               THEN \* dropped: rate limited
                    UNCHANGED handlers
               ELSE handlers' = [handlers EXCEPT ![k].pc = "processing",
                                                 ![k].frame = <<Head(inbox[k])>>,
                                                 ![k].now_ms = now_ms]
        /\ UNCHANGED <<active_connections, video_processors, client_locks,
                       client_frame_counts, client_last_ts_ms, processor_state,
                       results_sent, rest_responses, now_ms, frames_submitted,
                       processor_users, offlineVars>>

\* the receive loop from the return of process_frame to the next receive:
\* the state of the processor is written, the frame is counted and the result
\* is sent (its frame_number is kept)
WsResult ==
    \E k \in Connections :
        /\ handlers[k].pc = "processing"
        /\ LET c == handlers[k].client_id
           IN  /\ processor_state' = RunProcessor(k, handlers[k].frame[1].dets)
               /\ processor_users' = UsedBy(k, WsSession(k))
               /\ client_frame_counts' =
                      DictSet(client_frame_counts, c, client_frame_counts[c] + 1)
               /\ client_last_ts_ms' = DictSet(client_last_ts_ms, c, handlers[k].now_ms)
               /\ results_sent' = Append(results_sent,
                      [ connection |-> k, client_id |-> c,
                        frame_number |-> client_frame_counts[c] + 1 ])
        /\ handlers' = [handlers EXCEPT ![k].pc = "receiving", ![k].frame = <<>>,
                                        ![k].now_ms = 0]
        /\ UNCHANGED <<active_connections, video_processors, client_locks, inbox,
                       rest_responses, now_ms, frames_submitted, offlineVars>>

\* the client of connection k goes away: WebSocketDisconnect and the cleanup
WsDisconnect ==
    \E k \in Connections :
        /\ LoopFree
        /\ handlers[k].pc = "receiving"
        /\ inbox[k] = <<>>
        /\ LET c == handlers[k].client_id
           IN  /\ active_connections' = DictDel(active_connections, c)
               /\ video_processors' = DictDel(video_processors, c)
               /\ client_locks' = DictDel(client_locks, c)
               /\ client_frame_counts' = DictDel(client_frame_counts, c)
               /\ client_last_ts_ms' = DictDel(client_last_ts_ms, c)
        /\ handlers' = [handlers EXCEPT ![k].pc = "closed"]
        /\ UNCHANGED <<processor_state, processor_users, inbox, results_sent,
                       rest_responses, now_ms, frames_submitted, offlineVars>>

\* the receive of connection k raises another exception (a text message has
\* no bytes): the last except clause closes the socket
WsError ==
    \E k \in Connections :
        /\ LoopFree
        /\ handlers[k].pc = "receiving"
        /\ inbox[k] = <<>>
        /\ handlers' = [handlers EXCEPT ![k].pc = "closed"]
        /\ UNCHANGED <<active_connections, video_processors, client_locks,
                       client_frame_counts, client_last_ts_ms, processor_state,
                       processor_users, inbox, results_sent, rest_responses, now_ms,
                       frames_submitted, offlineVars>>

\* live_analysis_frame: caller r posts a request
RestFrame ==
    \E r \in RestCallers, body \in RestBodies :
        /\ LoopFree
        /\ frames_submitted < MaxLiveFrames
        /\ frames_submitted' = frames_submitted + 1
        /\ IF body.kind = "image"
           THEN /\ processor_state' = RunProcessor(module_processor, body.dets)
                /\ processor_users' = UsedBy(module_processor, RestSession(r))
                /\ rest_responses' = [rest_responses EXCEPT ![r] = Some(
                       [ status_code |-> 200,
                         detections |->
                             process_frame("live_analysis", body.dets, <<30, 30, 3>>)
                                 .result.detections ])]
           ELSE /\ rest_responses' = [rest_responses EXCEPT ![r] = Some(
                       [ status_code |-> IF body.kind = "no_json" THEN 500 ELSE 400,
                         detections |-> <<>> ])]
                /\ UNCHANGED <<processor_state, processor_users>>
        /\ UNCHANGED <<active_connections, video_processors, client_locks,
                       client_frame_counts, client_last_ts_ms, handlers, inbox,
                       results_sent, now_ms, offlineVars>>

\* time passes
Tick ==
    /\ now_ms < MIN_INTERVAL_MS + MaxTicks * MIN_INTERVAL_MS
    /\ now_ms' = now_ms + MIN_INTERVAL_MS
    /\ UNCHANGED <<active_connections, video_processors, client_locks,
                   client_frame_counts, client_last_ts_ms, processor_state, handlers,
                   inbox, results_sent, rest_responses, frames_submitted,
                   processor_users, offlineVars>>

LiveNext ==
    \/ WsAccept
    \/ ClientSends
    \/ WsFrame
    \/ WsResult
    \/ WsDisconnect
    \/ WsError
    \/ RestFrame
    \/ Tick

SpecLive == LiveInit /\ [][LiveNext]_vars

----------------------------------------------------------------------------
(* Claims about ThreatAnalyzer.analyze *)

\* the class of a detection, case-insensitively
LabelOf(i) == Lower(detections[i]["class_name"])

IsLethal(i) == LabelOf(i) \in {"gun", "pistol", "rifle", "knife", "weapon", "handgun"}

IsPerson(i) == LabelOf(i) \in {"person", "people"}

IsHardNegative(i) == LabelOf(i) \in {"cell phone", "smartphone", "remote", "drill"}

Overlap(i, j) == _calculate_iou(detections[i]["bbox"], detections[j]["bbox"])

\* some hard negative of the frame vetoes weapon i
Vetoed(i) ==
    \E j \in 1..Len(detections) :
        /\ IsHardNegative(j)
        /\ Overlap(i, j)[1] * 2 > Overlap(i, j)[2]
        /\ detections[j]["confidence"] > detections[i]["confidence"]

\* some person of the frame overlaps weapon i by more than 0.1
Attended(i) ==
    \E j \in 1..Len(detections) :
        IsPerson(j) /\ Overlap(i, j)[1] * 10 > Overlap(i, j)[2]

Returned(i) == \E k \in 1..Len(results) : results[k] = i

Field(i, key) == DictGet(detections[i], key)

\* C1: every lethal weapon that no hard negative suppresses is returned, as
\* CRITICAL / "Armed Suspect Alert" when some person overlaps it with IoU > 0.1
\* and as WARNING / "Unattended Weapon Warning" when no person does.
ThmC1_AlertLevel ==
    analysed =>
        \A i \in 1..Len(detections) :
            (IsLethal(i) /\ ~Vetoed(i)) =>
                /\ Returned(i)
                /\ Attended(i) =>
                      /\ Field(i, "alert_level") = Some("CRITICAL")
                      /\ Field(i, "event_type") = Some("Armed Suspect Alert")
                /\ ~Attended(i) =>
                      /\ Field(i, "alert_level") = Some("WARNING")
                      /\ Field(i, "event_type") = Some("Unattended Weapon Warning")

\* a frame with an armed weapon, an unattended weapon and a person whose IoU
\* with a weapon is exactly the threshold
WitC1_AlertLevel ==
    /\ analysed
    /\ \E i, j \in 1..Len(detections) :
          /\ IsLethal(i) /\ ~Vetoed(i) /\ Attended(i)
          /\ IsLethal(j) /\ ~Vetoed(j) /\ ~Attended(j)
    /\ \E i, j \in 1..Len(detections) :
          /\ IsLethal(i) /\ ~Vetoed(i) /\ ~Attended(i) /\ IsPerson(j)
          /\ Overlap(i, j)[1] * 10 = Overlap(i, j)[2]

\* C2: a lethal weapon is left out of the output exactly when some hard
\* negative of the frame has IoU > 0.5 with it and a strictly greater
\* confidence, also when a person overlaps it.
ThmC2_Suppression ==
    analysed =>
        \A i \in 1..Len(detections) :
            IsLethal(i) => (~Returned(i) <=> Vetoed(i))

\* a suppressed weapon that a person overlaps, next to a weapon that a hard
\* negative of equal confidence overlaps and that is returned
WitC2_Suppression ==
    /\ analysed
    /\ \E i \in 1..Len(detections) :
          IsLethal(i) /\ Vetoed(i) /\ Attended(i) /\ ~Returned(i)

\* C3: every returned CRITICAL detection carries a non-null associated_person_id.
CexC3_CriticalHasPerson ==
    analysed =>
        \A k \in 1..Len(results) :
            Field(results[k], "alert_level") = Some("CRITICAL") =>
                /\ "associated_person_id" \in DOMAIN detections[results[k]]
                /\ detections[results[k]]["associated_person_id"] # None

\* C4: every returned WARNING detection has no associated_person_id, also
\* when the dicts were annotated by an earlier call.
CexC4_WarningHasNoPerson ==
    analysed =>
        \A k \in 1..Len(results) :
            Field(results[k], "alert_level") = Some("WARNING") =>
                \/ "associated_person_id" \notin DOMAIN detections[results[k]]
                \/ detections[results[k]]["associated_person_id"] = None

\* C5: the output is exactly the non-suppressed lethal weapons of the input,
\* each once and in input order, each with an alert level and an event type;
\* no detection of another class is in it.
ThmC5_Output ==
    analysed =>
        /\ \A k \in 1..Len(results) : results[k] \in 1..Len(detections)
        /\ \A k, l \in 1..Len(results) : k < l => results[k] < results[l]
        /\ \A i \in 1..Len(detections) : Returned(i) <=> (IsLethal(i) /\ ~Vetoed(i))
        /\ \A k \in 1..Len(results) :
              /\ Field(results[k], "alert_level") \in {Some("WARNING"), Some("CRITICAL")}
              /\ "event_type" \in DOMAIN detections[results[k]]

\* two weapons returned in input order from a frame that also holds a
\* non-lethal object
WitC5_Output ==
    /\ analysed
    /\ Len(results) = 2
    /\ \E i \in 1..Len(detections) : LabelOf(i) \in {"machete", "scissors"}

----------------------------------------------------------------------------
(* Claims about VideoProcessor._smooth_confidence *)

SmoothedList == smoothed[1]

IouWithPrev(k, p) == _iou(current[k]["bbox"], previous_detections[p]["bbox"])

\* previous detection p has the maximum IoU with current detection k
IsBestPrev(k, p) ==
    \A q \in 1..Len(previous_detections) : RatGE(IouWithPrev(k, p), IouWithPrev(k, q))

\* output k has p's track id and the moving average 0.6 * p + 0.4 * current
CarriesPrev(k, p) ==
    /\ SmoothedList[k]["track_id"] = previous_detections[p]["track_id"]
    /\ 10 * SmoothedList[k]["confidence"]
          = 6 * previous_detections[p]["confidence"] + 4 * current[k]["confidence"]

Unmodified(k) ==
    /\ SmoothedList[k]["track_id"] = current[k]["track_id"]
    /\ SmoothedList[k]["confidence"] = current[k]["confidence"]

\* C6, as claimed: a current detection whose maximum IoU with the previous
\* frame is >= iou_match_threshold gets that detection's track id and the
\* moving average; every other detection, and every detection when there is no
\* previous state, is returned unmodified.
CexC6_MatchAtThreshold ==
    smoothed # None =>
        /\ Len(SmoothedList) = Len(current)
        /\ \A k \in 1..Len(current) :
              IF \E p \in 1..Len(previous_detections) :
                    IsBestPrev(k, p) /\ RatGE(IouWithPrev(k, p), iou_match_threshold)
              THEN \E p \in 1..Len(previous_detections) : IsBestPrev(k, p) /\ CarriesPrev(k, p)
              ELSE Unmodified(k)

\* C6, amended: the match also needs a positive IoU (a previous detection
\* that does not overlap never matches, whatever the threshold).
ThmC6_MatchPositiveIou ==
    smoothed # None =>
        /\ Len(SmoothedList) = Len(current)
        /\ \A k \in 1..Len(current) :
              IF \E p \in 1..Len(previous_detections) :
                    /\ IsBestPrev(k, p)
                    /\ RatGT(IouWithPrev(k, p), <<0, 1>>)
                    /\ RatGE(IouWithPrev(k, p), iou_match_threshold)
              THEN \E p \in 1..Len(previous_detections) : IsBestPrev(k, p) /\ CarriesPrev(k, p)
              ELSE Unmodified(k)

\* the default threshold, a detection matched at IoU 0.4 to the track 5 of the
\* previous frame with a changed confidence, and an unmatched detection
WitC6_MatchPositiveIou ==
    /\ smoothed # None
    /\ iou_match_threshold = <<3, 10>>
    /\ \E k, l \in 1..Len(current), p \in 1..Len(previous_detections) :
          /\ IsBestPrev(k, p)
          /\ RatEQ(IouWithPrev(k, p), <<4, 10>>)
          /\ SmoothedList[k]["track_id"] = 5
          /\ SmoothedList[k]["confidence"] # current[k]["confidence"]
          /\ \A q \in 1..Len(previous_detections) : IouWithPrev(l, q)[1] = 0
          /\ Unmodified(l)

----------------------------------------------------------------------------
(* Claims about VideoProcessor.process_frame *)

FrameDetections == frame_result[1]["detections"]

FrameEvents == frame_result[1]["suspicious_interactions"]

IouWithEntry(k, p) == _iou(model_out[k]["bbox"], prev_at_entry[p]["bbox"])

IsBestAtEntry(k, p) ==
    \A q \in 1..Len(prev_at_entry) : RatGE(IouWithEntry(k, p), IouWithEntry(k, q))

\* C7: a detection of frame N+1 that matches a detection of frame N with
\* IoU >= the match threshold is returned by process_frame with the smoothed
\* confidence 0.6 * previous + 0.4 * raw and the carried track id.
CexC7_FrameIsSmoothed ==
    (frame_result # None /\ mode = "video_upload") =>
        \A k \in 1..Len(model_out) :
            (\E p \in 1..Len(prev_at_entry) :
                IsBestAtEntry(k, p) /\ RatGE(IouWithEntry(k, p), iou_match_threshold))
            => \E p \in 1..Len(prev_at_entry) :
                  /\ IsBestAtEntry(k, p)
                  /\ FrameDetections[k]["track_id"] = prev_at_entry[p]["track_id"]
                  /\ 10 * FrameDetections[k]["confidence"]
                        = 6 * prev_at_entry[p]["confidence"] + 4 * model_out[k]["confidence"]

\* C8: the frame result lists, for every non-suppressed lethal weapon of the
\* frame, an event with its class, alert_level, event_type and
\* associated_person_id as ThreatAnalyzer.analyze computes them.
CexC8_ThreatEvents ==
    frame_result # None =>
        LET a == analyze(FrameDetections)
        IN  \A k \in 1..Len(a.results) :
                LET w == a.detections[a.results[k]]
                IN  \E e \in 1..Len(FrameEvents) :
                        /\ {"alert_level", "event_type"} \subseteq DOMAIN FrameEvents[e]
                        /\ DictGet(FrameEvents[e], "class_name") = DictGet(w, "class_name")
                           \/ DictGet(FrameEvents[e], "class") = DictGet(w, "class_name")
                        /\ FrameEvents[e]["alert_level"] = w["alert_level"]
                        /\ FrameEvents[e]["event_type"] = w["event_type"]
                        /\ DictGet(FrameEvents[e], "associated_person_id")
                              = DictGet(w, "associated_person_id")

----------------------------------------------------------------------------
(* Claims about VideoProcessor._assess_risk *)

\* the per-class weight table of the risk scorer, 0.2 for unknown classes
ClassWeight(c) ==
    CASE c \in {"gun", "pistol", "rifle", "firearm"} -> <<10, 10>>
      [] c \in {"weapon", "machete"} -> <<95, 100>>
      [] c \in {"knife", "axe"} -> <<9, 10>>
      [] c = "baseball_bat" -> <<7, 10>>
      [] c = "crowbar" -> <<6, 10>>
      [] c \in {"hammer", "scissors"} -> <<5, 10>>
      [] c = "bottle" -> <<3, 10>>
      [] OTHER -> <<2, 10>>

Clamp01(r) == IF r[1] < 0 THEN <<0, 1>> ELSE IF r[1] > r[2] THEN <<1, 1>> ELSE r

BoxArea(b) == (b[3] - b[1]) * (b[4] - b[2])

\* width * height of the frame
FramePixels == risk_shape[2] * risk_shape[1]

\* min(1, bbox_area / max(1, frame_width * frame_height))
AreaRatio ==
    IF BoxArea(risk_input["bbox"]) >= Max(1, FramePixels) THEN <<1, 1>>
    ELSE <<BoxArea(risk_input["bbox"]), Max(1, FramePixels)>>

\* 0.4 + class_weight + 0.3 * area_ratio + 0.3 * confidence
RawScore ==
    RatAdd(RatAdd(<<4, 10>>, ClassWeight(Lower(risk_input["class_name"]))),
           RatAdd(RatMul(<<3, 10>>, RatNorm(AreaRatio)),
                  RatMul(<<3, 10>>, RatNorm(<<risk_input["confidence"], 10^6>>))))

\* C9: the risk score is clamp01(0.4 + class_weight + 0.3 * area_ratio +
\* 0.3 * confidence), lies in [0, 1], and is 1.0 for a gun of confidence 1.0
\* that fills the frame.
ThmC9_RiskFormula ==
    risk_score # None =>
        /\ RatGE(risk_score[1], <<0, 1>>) /\ RatGE(<<1, 1>>, risk_score[1])
        /\ RatEQ(risk_score[1], Clamp01(RawScore))
        /\ ( /\ Lower(risk_input["class_name"]) = "gun"
             /\ risk_input["confidence"] = 10^6
             /\ FramePixels > 0
             /\ BoxArea(risk_input["bbox"]) = FramePixels )
           => risk_score[1] = <<1, 1>>

\* the gun of confidence 1.0 that fills its frame, scored 1.0
WitC9_RiskFormula ==
    /\ risk_score = Some(<<1, 1>>)
    /\ Lower(risk_input["class_name"]) = "gun"
    /\ risk_input["confidence"] = 10^6
    /\ FramePixels > 0
    /\ BoxArea(risk_input["bbox"]) = FramePixels

\* the classes whose default weight is at least 0.6
SaturatingClasses ==
    {"gun", "pistol", "rifle", "firearm", "weapon", "machete", "knife", "axe",
     "baseball_bat", "crowbar"}

\* C30: with the default weights the risk score is exactly 1.0 for every
\* detection of a class of weight >= 0.6, whatever its confidence in [0, 1],
\* its bbox and the frame size, and at least 0.6 for a detection of any class.
ThmC30_RiskSaturates ==
    risk_score # None =>
        /\ Lower(risk_input["class_name"]) \in SaturatingClasses
               => risk_score[1] = <<1, 1>>
        /\ RatGE(risk_score[1], <<6, 10>>)

\* a crowbar of confidence 0.0 with an empty bbox, scored 1.0
WitC30_RiskSaturates ==
    /\ risk_score = Some(<<1, 1>>)
    /\ risk_input["class_name"] = "crowbar"
    /\ risk_input["confidence"] = 0
    /\ BoxArea(risk_input["bbox"]) = 0

\* detection k of the last frame, as the model returned it, is a person
PersonAt(k) == Lower(model_out[k]["class_name"]) \in {"person", "people"}

\* detection j is a dangerous object that overlaps the person at k
OverlapsDanger(k, j, classes) ==
    /\ Lower(model_out[j]["class_name"]) \in classes
    /\ RatGT(_iou(model_out[k]["bbox"], model_out[j]["bbox"]), <<0, 1>>)

HighRisk == {"gun", "knife", "weapon", "pistol", "rifle", "firearm", "machete"}

MediumRisk == {"scissors", "hammer", "baseball_bat", "crowbar", "axe"}

ConfidenceAfter(k) == frame_result[1]["detections"][k]["confidence"]

\* C23: in live mode a person that overlaps a dangerous object ends with its
\* confidence reduced by 60% of the pre-adjustment value when the object is
\* high-risk and by 30% when it is medium-risk; the overlapped object's
\* confidence is raised by at most 20% of its pre-adjustment value and
\* never above 0.99.
CexC23_AdjustmentAmounts ==
    (frame_result # None /\ mode = "live_analysis") =>
        \A k \in 1..Len(model_out) : PersonAt(k) =>
            /\ ( /\ \E j \in 1..Len(model_out) : OverlapsDanger(k, j, HighRisk)
                 /\ ~\E j \in 1..Len(model_out) : OverlapsDanger(k, j, MediumRisk) )
               => ConfidenceAfter(k) * 10 = model_out[k]["confidence"] * 4
            /\ ( /\ \E j \in 1..Len(model_out) : OverlapsDanger(k, j, MediumRisk)
                 /\ ~\E j \in 1..Len(model_out) : OverlapsDanger(k, j, HighRisk) )
               => ConfidenceAfter(k) * 10 = model_out[k]["confidence"] * 7
            /\ \A j \in 1..Len(model_out) :
                   OverlapsDanger(k, j, HighRisk \cup MediumRisk) =>
                       /\ ConfidenceAfter(j) * 10 <= model_out[j]["confidence"] * 12
                       /\ ConfidenceAfter(j) <= 990000

----------------------------------------------------------------------------
(* Claims about CrimeDetectionModel._calibrate_conf *)

Zero == Exactly(<<0, 1>>)

One == Exactly(<<1, 1>>)

\* C10: for T > 0 and c in [0, 1] the calibrated value lies in [0, 1] and is
\* monotonically non-decreasing in c; c <= 0 gives 0.0 and c >= 1 gives 1.0.
CexC10_CalibrateMonotone ==
    RatGT(temp_scale, <<0, 1>>) =>
      /\ \A a \in calibrations :
            /\ CalLeq(Zero, a.out) /\ CalLeq(a.out, One)
            /\ a.conf[1] <= 0 => a.out = Zero
            /\ a.conf[1] >= a.conf[2] => a.out = One
      /\ \A a, b \in calibrations :
            ( /\ RatGE(a.conf, <<0, 1>>) /\ RatGE(<<1, 1>>, b.conf)
              /\ RatGE(b.conf, a.conf) )
            => CalLeq(a.out, b.out)

----------------------------------------------------------------------------
(* C11: algebra of the two IoU implementations *)

RectArea(b) == (b[3] - b[1]) * (b[4] - b[2])

\* the rectangles share no interior point
Disjoint(a, b) == a[3] <= b[1] \/ b[3] <= a[1] \/ a[4] <= b[2] \/ b[4] <= a[2]

IouValues == iou_out[1]

\* C11: for rectangles with x1 <= x2 and y1 <= y2, _iou and _calculate_iou
\* are symmetric, give 1 for a rectangle of positive area against itself,
\* give 0 for rectangles that do not overlap, and give 0 (a defined value,
\* no division by zero) when the union has no area.
ThmC11_IouAlgebra ==
    iou_out # None =>
        /\ \A k \in DOMAIN IouValues : IouValues[k][2] > 0
        /\ RatEQ(IouValues.ab, IouValues.ba)
        /\ RatEQ(IouValues.t_ab, IouValues.t_ba)
        /\ RatEQ(IouValues.ab, IouValues.t_ab)
        /\ RectArea(rect_a) > 0 =>
              RatEQ(IouValues.aa, <<1, 1>>) /\ RatEQ(IouValues.t_aa, <<1, 1>>)
        /\ Disjoint(rect_a, rect_b) =>
              RatEQ(IouValues.ab, <<0, 1>>) /\ RatEQ(IouValues.t_ab, <<0, 1>>)
        /\ RectArea(rect_a) = 0 /\ RectArea(rect_b) = 0 =>
              RatEQ(IouValues.ab, <<0, 1>>) /\ RatEQ(IouValues.t_ab, <<0, 1>>)

\* two different overlapping rectangles of positive area were compared, with an
\* IoU strictly between 0 and 1
WitC11_IouAlgebra ==
    /\ iou_out # None
    /\ rect_a # rect_b
    /\ RectArea(rect_a) > 0 /\ RectArea(rect_b) > 0
    /\ ~Disjoint(rect_a, rect_b)
    /\ RatGT(IouValues.ab, <<0, 1>>) /\ RatGT(<<1, 1>>, IouValues.ab)
    /\ RatGT(IouValues.t_ab, <<0, 1>>)

----------------------------------------------------------------------------
(* C16: which person an armed weapon is associated with *)

\* person j overlaps weapon i by more than 0.1
AttendedBy(i, j) == IsPerson(j) /\ Overlap(i, j)[1] * 10 > Overlap(i, j)[2]

\* j is the first person of the input list that overlaps weapon i enough
FirstAttendant(i, j) ==
    AttendedBy(i, j) /\ \A h \in 1..(j - 1) : ~AttendedBy(i, h)

\* C16: an armed weapon carries the track id of the first person, in input
\* order, whose IoU with it exceeds the threshold, whatever the IoU of the
\* persons after it.
ThmC16_FirstMatchWins ==
    analysed =>
        \A i \in 1..Len(detections) : \A j \in 1..Len(detections) :
            (IsLethal(i) /\ ~Vetoed(i) /\ FirstAttendant(i, j)) =>
                Field(i, "associated_person_id") = Some(DictGet(detections[j], "track_id"))

\* a weapon with two sufficient persons, the second of which overlaps it more
\* and has another track id; the weapon carries the first one's id
WitC16_FirstMatchWins ==
    /\ analysed
    /\ \E i, j, h \in 1..Len(detections) :
           /\ IsLethal(i) /\ ~Vetoed(i)
           /\ FirstAttendant(i, j)
           /\ j < h /\ AttendedBy(i, h)
           /\ RatGT(Overlap(i, h), Overlap(i, j))
           /\ DictGet(detections[j], "track_id") # None
           /\ DictGet(detections[h], "track_id") # None
           /\ DictGet(detections[j], "track_id") # DictGet(detections[h], "track_id")
           /\ Field(i, "associated_person_id") = Some(DictGet(detections[j], "track_id"))

----------------------------------------------------------------------------
(* C17: the tracker state after a frame *)

\* the {bbox, confidence, track_id} part of a returned detection
TrackPart(d) == [ bbox |-> d["bbox"], confidence |-> d["confidence"],
                  track_id |-> d["track_id"] ]

\* C17: after process_frame returns, previous_detections is the list of the
\* {bbox, confidence, track_id} projections of the detections it returned, in
\* the same order and of the same length, whatever the state was before; a
\* frame without detections leaves it empty.
ThmC17_StateIsProjection ==
    frame_result # None =>
        /\ Len(previous_detections) = Len(FrameDetections)
        /\ \A k \in 1..Len(FrameDetections) :
               previous_detections[k] = TrackPart(FrameDetections[k])
        /\ model_out = <<>> => previous_detections = <<>>

\* a live frame with one detection processed on a state of two entries, none
\* of which survives
WitC17_StateIsProjection ==
    /\ frame_result # None
    /\ Len(prev_at_entry) = 2
    /\ Len(FrameDetections) = 1
    /\ previous_detections = <<TrackPart(FrameDetections[1])>>
    /\ \A p \in 1..2 : prev_at_entry[p] # previous_detections[1]

----------------------------------------------------------------------------
(* C18: the calibrator never raises *)

\* max(1e-6, T) of the configured temperature
FlooredTemp ==
    IF RatGT(temp_scale, <<1, 1000000>>) THEN temp_scale ELSE <<1, 1000000>>

\* the logit / sigmoid computation of the try block fails for conf
ComputationFails(conf) ==
    /\ conf[1] > 0 /\ conf[1] < conf[2]
    /\ ExpArg(conf, temp_scale) >= ExpOverflow

\* conf / max(1e-6, T), clamped to [0, 1]
ClampedQuotient(conf) ==
    Clamp01(RatNorm(<<conf[1] * FlooredTemp[2], conf[2] * FlooredTemp[1]>>))

----------------------------------------------------------------------------
(* C19, C20: the dangerous-object classifier *)

\* knife, gun, weapon, scissors, bottle, hammer, crowbar, baseball_bat, axe, machete
CanonicalOrder ==
    << <<"k", "n", "i", "f", "e">>,
       <<"g", "u", "n">>,
       <<"w", "e", "a", "p", "o", "n">>,
       <<"s", "c", "i", "s", "s", "o", "r", "s">>,
       <<"b", "o", "t", "t", "l", "e">>,
       <<"h", "a", "m", "m", "e", "r">>,
       <<"c", "r", "o", "w", "b", "a", "r">>,
       <<"b", "a", "s", "e", "b", "a", "l", "l", "_", "b", "a", "t">>,
       <<"a", "x", "e">>,
       <<"m", "a", "c", "h", "e", "t", "e">> >>

ClassifiedAs == cls_out[1]

\* some alias of the category is a substring of the lower-cased label
HasAlias(category) ==
    \E k \in 1..Len(dangerous_objects) :
        /\ dangerous_objects[k].type = category
        /\ \E v \in 1..Len(dangerous_objects[k].variations) :
               Contains(dangerous_objects[k].variations[v], lower(cls_name))

\* the label is in the knife-confusion table with a confidence at or above
\* its min_confidence
SuppressionApplies ==
    \E k \in 1..Len(knife_false_positives) :
        /\ knife_false_positives[k].label = lower(cls_name)
        /\ RatGE(cls_conf, knife_false_positives[k].min_confidence)

\* C19: when false-positive suppression does not apply to the label, the
\* result is the first category, in the order knife, gun, weapon, scissors,
\* bottle, hammer, crowbar, baseball_bat, axe, machete, one of whose aliases
\* is a substring of the lower-cased label.
ThmC19_FirstCategoryWins ==
    (cls_out # None /\ ~SuppressionApplies) =>
        \A c \in 1..Len(CanonicalOrder) :
            ( /\ HasAlias(CanonicalOrder[c])
              /\ \A b \in 1..(c - 1) : ~HasAlias(CanonicalOrder[b]) )
            => ClassifiedAs = CanonicalOrder[c]

\* a label with aliases in two categories was classified as the earlier one,
\* although the later one bears the label's own name
WitC19_FirstCategoryWins ==
    /\ cls_out # None /\ ~SuppressionApplies
    /\ \E b, c \in 1..Len(CanonicalOrder) :
           /\ b < c
           /\ HasAlias(CanonicalOrder[b]) /\ HasAlias(CanonicalOrder[c])
           /\ \A a \in 1..(b - 1) : ~HasAlias(CanonicalOrder[a])
           /\ lower(cls_name) = CanonicalOrder[c]
           /\ ClassifiedAs = CanonicalOrder[b]

\* some generic weapon keyword is a substring of the lower-cased label
HasWeaponKeyword ==
    \E k \in 1..Len(weapon_keywords) : Contains(weapon_keywords[k], lower(cls_name))

\* C20: a label that matches no canonical alias and no generic weapon keyword
\* is returned lower-cased.
CexC20_FallThroughIsLowerCased ==
    ( /\ cls_out # None
      /\ \A c \in 1..Len(CanonicalOrder) : ~HasAlias(CanonicalOrder[c])
      /\ ~HasWeaponKeyword )
    => ClassifiedAs = lower(cls_name)

\* the entry of the knife-confusion table for the label
FpEntry == knife_false_positives[FpIndex(lower(cls_name))]

InConfusionTable == FpIndex(lower(cls_name)) > 0

BoxWidth == cls_bbox[1][3] - cls_bbox[1][1]

BoxHeight == cls_bbox[1][4] - cls_bbox[1][2]

HasProperBox == cls_bbox # None /\ BoxWidth > 0 /\ BoxHeight > 0

\* height / width lies in the entry's aspect_ratio_range
AspectInRange ==
    /\ BoxHeight * FpEntry.aspect_ratio_range[1][2]
           >= FpEntry.aspect_ratio_range[1][1] * BoxWidth
    /\ BoxHeight * FpEntry.aspect_ratio_range[2][2]
           <= FpEntry.aspect_ratio_range[2][1] * BoxWidth

\* width * height / (640 * 640) respects every area bound the entry has
AreaBoundsHold ==
    /\ FpEntry.max_area_ratio # None =>
           BoxWidth * BoxHeight * FpEntry.max_area_ratio[1][2]
               <= FpEntry.max_area_ratio[1][1] * 409600
    /\ FpEntry.min_area_ratio # None =>
           BoxWidth * BoxHeight * FpEntry.min_area_ratio[1][2]
               >= FpEntry.min_area_ratio[1][1] * 409600

\* the call returned from the false-positive block, before any alias matching
Suppressed == cls_return # None /\ cls_return[1] \in {"filtered", "high_confidence"}

\* C21 (as stated): for a label of the knife-confusion table and a bbox of
\* positive width and height, suppression triggers only when the confidence
\* reaches min_confidence and the aspect ratio is in range and every area
\* bound holds; otherwise classification continues with alias matching.
CexC21_SuppressionNeedsGeometry ==
    (cls_out # None /\ InConfusionTable /\ HasProperBox) =>
        (Suppressed <=> ( /\ RatGE(cls_conf, FpEntry.min_confidence)
                          /\ AspectInRange /\ AreaBoundsHold ))

\* C21 (amended): for a label of the knife-confusion table suppression
\* triggers exactly when the confidence reaches min_confidence, whatever the
\* bbox; the result is then the lower-cased label, and the geometry only
\* decides which of the two returns of the block is taken.
ThmC21_SuppressionByConfidence ==
    (cls_out # None /\ InConfusionTable) =>
        /\ Suppressed <=> RatGE(cls_conf, FpEntry.min_confidence)
        /\ Suppressed => ClassifiedAs = lower(cls_name)
        /\ cls_return[1] = "filtered" <=>
               ( /\ RatGE(cls_conf, FpEntry.min_confidence) /\ HasProperBox
                 /\ AspectInRange /\ AreaBoundsHold )

\* a confident label of the table with a box outside its geometry was
\* returned from the false-positive block
WitC21_SuppressionByConfidence ==
    /\ cls_out # None /\ InConfusionTable /\ HasProperBox
    /\ RatGE(cls_conf, FpEntry.min_confidence)
    /\ ~(AspectInRange /\ AreaBoundsHold)
    /\ cls_return[1] = "high_confidence"
    /\ ClassifiedAs = lower(cls_name)

----------------------------------------------------------------------------
(* C12, C13, C14: the report generator *)

ReportText == report[1].val

IsErrorReport ==
    /\ Len(ReportText) = 7
    /\ ReportText[2] = "\nFORENSIC REPORT GENERATION ERROR\n"

\* the six section titles, in the order of the report
SectionTitles ==
    << "\n1. EXECUTIVE SUMMARY\n",
       "\n2. FORENSIC OBSERVATION LOG\n",
       "\n3. BEHAVIORAL INTERPRETATION & THREAT ASSESSMENT\n",
       "\n4. EVIDENTIAL CONFIDENCE ANALYSIS\n",
       "\n5. SCENE CONTEXTUALIZATION\n",
       "\n6. LIMITATIONS & DISCLAIMER\n" >>

IsSectionTitle(p) == \E k \in 1..Len(SectionTitles) : SectionTitles[k] = p

\* the text has each of the six titles once, in their order
HasSixSections == SelectSeq(ReportText, IsSectionTitle) = SectionTitles

\* some piece of the text says p
Says(p) == \E i \in 1..Len(ReportText) : ReportText[i] = p

\* the items of the detections list of the call, <<>> when there is none
InputItems ==
    IF report_input.kind = "dict" /\ report_input.detections # None
    THEN report_input.detections[1].items
    ELSE <<>>

\* the generation met an internal error
InternalError == \E now \in Clock : GenerateBody(report_input, now).raised

\* C12: generate_report never raises and returns non-empty text, whatever the
\* argument; when the generation meets an internal error the text is the
\* fixed-format error report, which names the error and carries a generation
\* timestamp.
ThmC12_ReportNeverRaises ==
    report # None =>
        /\ ~report[1].raised
        /\ ReportText # <<>> /\ \A i \in 1..Len(ReportText) : ReportText[i] # ""
        /\ InternalError =>
              /\ IsErrorReport
              /\ \E now \in Clock :
                    /\ GenerateBody(report_input, now).msg # ""
                    /\ ReportText[4] = "\nAn error occurred during report generation: "
                                          \o GenerateBody(report_input, now).msg \o "\n"
                    /\ ReportText[7] = "\nReport Generation Timestamp: " \o now \o "\n"
        /\ ~InternalError => HasSixSections

\* a list of two records, one of them with a bbox of the wrong type, was
\* answered by the error report
WitC12_ReportNeverRaises ==
    /\ report # None
    /\ Len(InputItems) = 2
    /\ \E i \in 1..2 :
           /\ InputItems[i].is_dict
           /\ "bbox" \in DOMAIN InputItems[i].fields
           /\ InputItems[i].fields["bbox"].kind = "none"
    /\ InternalError
    /\ IsErrorReport
    /\ ~report[1].raised

\* the call was made on a dict whose detections list is empty
EmptyDetectionList ==
    /\ report_input.kind = "dict"
    /\ report_input.detections # None
    /\ report_input.detections[1].kind = "list"
    /\ report_input.detections[1].items = <<>>

\* C13: for an empty detection list the result is not the error report; it has
\* the fixed "no findings" paragraph of the executive summary and the six
\* section headers in their order.
ThmC13_EmptyListReport ==
    (report # None /\ EmptyDetectionList) =>
        /\ ~report[1].raised
        /\ ~IsErrorReport
        /\ HasSixSections
        /\ Says("No objects or activities meeting the detection criteria were identified ")
        /\ Says("during the analysis period. The scene was assessed as presenting minimal ")
        /\ Says("observable risk indicators based on the available visual evidence.\n")

\* the report of an empty list that came with a timestamp
WitC13_EmptyListReport ==
    /\ report # None /\ EmptyDetectionList
    /\ report_input.timestamp # None
    /\ Says(report_input.timestamp[1] \o ".\n\n")
    /\ HasSixSections

\* the only defects of a record are those of the claim: a confidence that is
\* missing or not numeric, a missing bbox, a missing class name
MalformedAtMost(item) ==
    item.is_dict =>
        /\ "bbox" \in DOMAIN item.fields =>
              item.fields["bbox"].kind = "list" /\ Len(item.fields["bbox"].box) = 4
        /\ "risk_score" \in DOMAIN item.fields => item.fields["risk_score"].kind = "float"

\* C14: a batch whose records have a missing or non-numeric confidence, a
\* missing bbox or a missing class name still gets the six-section report,
\* not the error report.
CexC14_MalformedRecordNotFatal ==
    ( /\ report # None
      /\ report_input.kind = "dict" /\ report_input.detections # None
      /\ report_input.detections[1].kind = "list"
      /\ \A i \in 1..Len(InputItems) : MalformedAtMost(InputItems[i]) )
    => (~IsErrorReport /\ HasSixSections)

\* the normalized detections of the call, when the normalization succeeds
NormalizedInput ==
    IF report_input.detections = None THEN <<>>
    ELSE _normalize_detections(report_input.detections[1]).val

\* the sum of the confidences of the first n normalized detections
RECURSIVE TotalConfidence(_)
TotalConfidence(n) ==
    IF n = 0 THEN <<0, 1>>
    ELSE RatAdd(TotalConfidence(n - 1), NormalizedInput[n].confidence)

MeanAtLeast(q) ==
    RatGE(TotalConfidence(Len(NormalizedInput)), RatMul(q, <<Len(NormalizedInput), 1>>))

DangerousAt(i) == _is_dangerous_object(NormalizedInput[i].class_name)

\* the level the claim assigns to the normalized detections
ExpectedLevel ==
    IF NormalizedInput = <<>> THEN "LOW"
    ELSE IF /\ \E i \in 1..Len(NormalizedInput) :
                  DangerousAt(i) /\ RatGE(NormalizedInput[i].confidence, <<70, 100>>)
            /\ MeanAtLeast(<<70, 100>>)
    THEN "HIGH"
    ELSE IF (\E i \in 1..Len(NormalizedInput) : DangerousAt(i)) \/ MeanAtLeast(<<60, 100>>)
    THEN "MEDIUM"
    ELSE "LOW"

----------------------------------------------------------------------------
(* C25: purity of the analysis components *)

\* C25: a call of ThreatAnalyzer.analyze (like a call of the calibrator, the
\* classifier and the risk scorer) leaves the detection records passed to it
\* unchanged.
CexC25_AnalyzeLeavesRecords == [][Analyze => detections' = detections]_vars

----------------------------------------------------------------------------
(* Claims about the live sessions *)

\* C15: tracker state is isolated per live session: no VideoProcessor
\* instance (its previous_detections) is read or written by the frames of
\* two different sessions, whether feeds or callers of /frame
CexC15_SessionsIsolated ==
    \A p \in DOMAIN processor_users : Cardinality(processor_users[p]) <= 1

\* C24: a frame that arrives while an earlier frame of the same session is
\* being processed is dropped: it is never handed to process_frame.
CexC24_BusyFrameDropped ==
    \A k \in Connections :
        handlers[k].pc = "processing" => ~handlers[k].frame[1].arrived_busy

\* connection k has ended
Ended(k) == handlers[k].pc = "closed"

\* the entry of client c in one of the dicts that hold an object belongs to
\* connection k
OwnedEntry(d, c, k) == c \in DOMAIN d /\ d[c] = k

\* C26: when a feed ends, by a disconnect or by another error, its entries in
\* video_processors, client_locks, client_frame_counts, client_last_ts_ms and
\* active_connections are removed: no entry of an ended session remains.
CexC26_EndedSessionLeavesNothing ==
    \A k \in Connections : Ended(k) =>
        LET c == handlers[k].client_id
        IN  /\ ~OwnedEntry(active_connections, c, k)
            /\ ~OwnedEntry(video_processors, c, k)
            /\ ~OwnedEntry(client_locks, c, k)
            /\ (\A j \in Connections : handlers[j].client_id = c => Ended(j)) =>
                   /\ c \notin DOMAIN client_frame_counts
                   /\ c \notin DOMAIN client_last_ts_ms

\* the frame numbers sent to client c, in the order of sending
RECURSIVE NumbersOf(_, _)
NumbersOf(c, n) ==
    IF n = 0 THEN <<>>
    ELSE IF results_sent[n].client_id = c
    THEN Append(NumbersOf(c, n - 1), results_sent[n].frame_number)
    ELSE NumbersOf(c, n - 1)

\* C29: for every client_id the frame numbers of the result messages are
\* 1, 2, 3, ...: each is the number of frames processed for that client so
\* far, across drops and connections opened with that id.
CexC29_NumbersCountFrames ==
    \A c \in ClientIds :
        \A i \in 1..Len(NumbersOf(c, Len(results_sent))) :
            NumbersOf(c, Len(results_sent))[i] = i

----------------------------------------------------------------------------
(* CrimeDetectionModel.process_frame *)

\* the boxes of one frame, at most
MaxBoxes == 2

\* the names bound when line 204 is evaluated: the module's globals (its
\* imports, logger and the class) and the locals of process_frame assigned by
\* then; a name that is in neither and is no builtin raises NameError
names_in_scope ==
    { "torch", "os", "logging", "Dict", "Any", "Tuple", "List", "np", "YOLO", "logger",
      "CrimeDetectionModel", "self", "frame", "load_status", "original_shape",
      "max_size", "scale", "new_width", "new_height", "cv2" }

\* self.confidence_threshold of a YOLO11 model: MODEL_CONFIDENCE_THRESHOLD, 0.28
confidence_threshold == <<28, 100>>

\* CLASS_THRESHOLDS values: unset, and a threshold of 0.9 for 'knife'
ClassThresholds == { <<>>, (<<"k", "n", "i", "f", "e">> :> <<9, 10>>) }

\* what the tracker holds for a box: results.names[cls], conf, xyxy and id
TrackerBox(label, conf, id) ==
    [class_name |-> label, conf |-> conf, bbox |-> <<0, 0, 80, 40>>, track_id |-> id]

TrackerBoxes ==
    { TrackerBox(label, conf, 7) :
        label \in { <<"k", "n", "i", "f", "e">>, <<"C", "a", "t">>,
                    <<"w", "i", "n", "e", " ", "b", "o", "t", "t", "l", "e">> },
        conf \in { <<1, 5>>, <<4, 5>> } }

\* calibrated < thr, for a calibrated value and a rational threshold
CalLess(calibrated, thr) == ~CalLeq(Exactly(thr), calibrated)

\* CrimeDetectionModel._calculate_risk_level
_calculate_risk_level(class_name, confidence) ==
    IF class_name \in { <<"g", "u", "n">>, <<"k", "n", "i", "f", "e">>,
                        <<"w", "e", "a", "p", "o", "n">>, <<"p", "i", "s", "t", "o", "l">>,
                        <<"r", "i", "f", "l", "e">>, <<"f", "i", "r", "e", "a", "r", "m">>,
                        <<"m", "a", "c", "h", "e", "t", "e">>, <<"a", "x", "e">> }
    THEN IF ~CalLeq(confidence, Exactly(<<7, 10>>)) THEN "High"
         ELSE IF ~CalLeq(confidence, Exactly(<<5, 10>>)) THEN "Medium"
         ELSE "Low"
    ELSE IF class_name \in { <<"s", "c", "i", "s", "s", "o", "r", "s">>,
                             <<"h", "a", "m", "m", "e", "r">>,
                             <<"c", "r", "o", "w", "b", "a", "r">>,
                             <<"b", "a", "s", "e", "b", "a", "l", "l", "_", "b", "a", "t">>,
                             <<"b", "o", "t", "t", "l", "e">> }
    THEN IF ~CalLeq(confidence, Exactly(<<8, 10>>)) THEN "Medium" ELSE "Low"
    ELSE "Low"

\* thr of a box in the branch with track ids (lines 228-231)
Threshold(mapped_class, is_yolo11, class_thresholds) ==
    IF is_yolo11 THEN confidence_threshold
    ELSE DictGetOr(class_thresholds, mapped_class, confidence_threshold)

\* the dict appended for a box (lines 240-247 and 265-272); the fallback
\* branch reads six-element rows, so its track_id is -1
Detection(box, calibrated, has_ids) ==
    LET mapped_class == _map_to_dangerous_object(box.class_name, box.conf, Some(box.bbox))
    IN  [class_name |-> mapped_class,
         original_class |-> box.class_name,
         confidence |-> calibrated,
         bbox |-> box.bbox,
         risk_level |-> _calculate_risk_level(mapped_class, calibrated),
         track_id |-> IF has_ids THEN box.track_id ELSE 0 - 1]

\* lines 211-272: the detections built from the first n boxes
RECURSIVE BuildDetections(_, _, _, _, _, _)
BuildDetections(boxes, n, has_ids, is_yolo11, class_thresholds, t) ==
    IF n = 0 THEN <<>>
    ELSE LET box == boxes[n]
             mapped_class ==
                 _map_to_dangerous_object(box.class_name, box.conf, Some(box.bbox))
             thr == IF has_ids THEN Threshold(mapped_class, is_yolo11, class_thresholds)
                    ELSE confidence_threshold
             calibrated == _calibrate_conf(box.conf, t)
             before == BuildDetections(boxes, n - 1, has_ids, is_yolo11, class_thresholds, t)
         IN  IF CalLess(calibrated, thr) THEN before
             ELSE Append(before, Detection(box, calibrated, has_ids))

\* the frame process_frame holds after lines 185-194: resized when its larger
\* side exceeds 1280
Preprocessed(frame) == IF frame = "large_frame" THEN "resized_frame" ELSE frame

\* CrimeDetectionModel.process_frame: the pair it returns and self.model after
\* the call.  load_ok says whether load_model reports "loaded".
CrimeDetectionModel_process_frame(model, load_ok, frame, boxes, has_ids, is_yolo11, class_thresholds, t) ==
    IF model = "none" /\ ~load_ok
    THEN [detections |-> <<>>, frame |-> frame, model |-> "none",
          error |-> "ValueError"]                                  \* line 183
    ELSE IF "use_half" \notin names_in_scope
    THEN [detections |-> <<>>, frame |-> Preprocessed(frame), model |-> "loaded",
          error |-> "NameError"]                                   \* line 204
    ELSE [detections |-> BuildDetections(boxes, Len(boxes), has_ids, is_yolo11,
                                         class_thresholds, t),
          frame |-> "annotated_frame", model |-> "loaded", error |-> ""]

DetectInit ==
    /\ det_model \in {"none", "loaded"}
    /\ det_is_yolo11 \in BOOLEAN
    /\ det_class_thresholds \in ClassThresholds
    /\ det_frame \in {"frame", "large_frame"}
    /\ det_boxes \in SeqsUpTo(TrackerBoxes, MaxBoxes)
    /\ det_has_ids \in BOOLEAN
    /\ det_return = None
    /\ ThreatIdle /\ VideoIdle /\ RiskIdle /\ CalibIdle
    /\ IouIdle /\ ClassifierIdle /\ ReportIdle /\ LiveIdle /\ TaskIdle

\* detections, annotated_frame = model.process_frame(frame)
ProcessModelFrame ==
    \E load_ok \in BOOLEAN :
        LET out == CrimeDetectionModel_process_frame(det_model, load_ok, det_frame, det_boxes, det_has_ids,
                     det_is_yolo11, det_class_thresholds, temp_scale)
        IN  /\ det_return = None
            /\ det_return' = Some([detections |-> out.detections, frame |-> out.frame,
                                   error |-> out.error])
            /\ det_model' = out.model
            /\ UNCHANGED <<det_is_yolo11, det_class_thresholds, det_frame, det_boxes,
                           det_has_ids, threatVars, videoVars, riskVars, calibVars,
                           iouVars, classifierVars, reportVars, liveVars, taskVars>>

DetectNext == ProcessModelFrame

SpecDetect == DetectInit /\ [][DetectNext]_vars

\* the boxes of the frame whose calibrated confidence is at least their threshold
PassingBoxes ==
    { n \in 1..Len(det_boxes) :
        LET box == det_boxes[n]
            mapped_class ==
                _map_to_dangerous_object(box.class_name, box.conf, Some(box.bbox))
            thr == IF det_has_ids
                   THEN Threshold(mapped_class, det_is_yolo11, det_class_thresholds)
                   ELSE confidence_threshold
        IN  CalLeq(Exactly(thr), _calibrate_conf(box.conf, temp_scale)) }

\* C27: when process_frame returns with the model loaded, the list it returns
\* has exactly one detection for each box whose calibrated confidence is at
\* least its threshold.
CexC27_OneDetectionPerPassingBox ==
    (det_return # None /\ det_model = "loaded") =>
        Len(det_return[1].detections) = Cardinality(PassingBoxes)

----------------------------------------------------------------------------
(* routes/video_analysis.py: upload_video, process_video, get_analysis_results *)

\* the videos uploaded, at most
MaxVideos == 1

\* the frames of a video, at most
MaxVideoFrames == 2

\* str(uuid.uuid4()): the n-th accepted upload gets id n
VideoIds == 1..MaxVideos

\* the task dict upload_video stores (lines 332-340), as far as its status goes
NewTask == [status |-> "processing", error |-> None]

\* analysis_tasks[video_id].update({"status": "completed", ...}), lines 253-262
Completed(task) == [task EXCEPT !.status = "completed"]

\* the outer except clause of process_video, lines 275-278
Failed(task, message) == [task EXCEPT !.status = "failed", !.error = Some(message)]

\* lines 279-280: the file is removed if it exists; os.remove may raise
FilesAfterFailure(v) == { local_files, local_files \ {v} }

\* the statuses reported for v so far, followed by the one reported now;
\* a status repeated by the next GET is kept once
Reported(reports, status) ==
    IF Len(reports) > 0 /\ reports[Len(reports)] = status THEN reports
    ELSE Append(reports, status)

TaskInit ==
    /\ gcp \in BOOLEAN
    /\ analysis_tasks = <<>>
    /\ workers = <<>>
    /\ local_files = {}
    /\ status_reports = <<>>
    /\ ThreatIdle /\ VideoIdle /\ RiskIdle /\ CalibIdle
    /\ IouIdle /\ ClassifierIdle /\ ReportIdle /\ LiveIdle /\ DetectIdle

\* POST /video/upload: a file of a wrong type or size, or one that cannot be
\* written, is answered with an error; otherwise the task is stored and
\* process_video is handed to the background tasks
UploadVideo ==
    \E accepted \in BOOLEAN, total_frames \in 0..MaxVideoFrames :
        LET video_id == Cardinality(DOMAIN analysis_tasks) + 1
        IN  /\ video_id \in VideoIds
            /\ IF accepted
               THEN /\ analysis_tasks' = DictSet(analysis_tasks, video_id, NewTask)
                    /\ workers' = DictSet(workers, video_id,
                           [pc |-> "queued", total_frames |-> total_frames,
                            processed_frames |-> 0])
                    /\ local_files' = local_files \cup {video_id}
                    /\ status_reports' = DictSet(status_reports, video_id, <<>>)
               ELSE UNCHANGED <<analysis_tasks, workers, local_files, status_reports>>
            /\ UNCHANGED <<gcp, threatVars, videoVars, riskVars, calibVars, iouVars,
                           classifierVars, reportVars, liveVars, detectVars>>

\* process_video, lines 48-79: the model and the capture are created and the
\* task is marked "processing"; an exception reaches the outer except clause
OpenVideo ==
    \E v \in DOMAIN workers, opened \in BOOLEAN :
        /\ workers[v].pc = "queued"
        /\ IF opened
           THEN /\ analysis_tasks' =
                       DictSet(analysis_tasks, v, [analysis_tasks[v] EXCEPT !.status = "processing"])
                /\ workers' = DictSet(workers, v, [workers[v] EXCEPT !.pc = "reading"])
                /\ UNCHANGED local_files
           ELSE /\ analysis_tasks' = DictSet(analysis_tasks, v,
                       Failed(analysis_tasks[v], "Could not open video file"))
                /\ workers' = DictSet(workers, v, [workers[v] EXCEPT !.pc = "done"])
                /\ local_files' \in FilesAfterFailure(v)
        /\ UNCHANGED <<gcp, status_reports, threatVars, videoVars, riskVars, calibVars,
                       iouVars, classifierVars, reportVars, liveVars, detectVars>>

\* lines 81-99: one frame read and processed; the progress fields of the task
\* are written every fifth frame, its status is not
ReadFrame ==
    \E v \in DOMAIN workers :
        /\ workers[v].pc = "reading"
        /\ workers[v].processed_frames < workers[v].total_frames
        /\ workers' = DictSet(workers, v,
               [workers[v] EXCEPT !.processed_frames = @ + 1])
        /\ UNCHANGED <<gcp, analysis_tasks, local_files, status_reports, threatVars,
                       videoVars, riskVars, calibVars, iouVars, classifierVars,
                       reportVars, liveVars, detectVars>>

\* lines 84-249: cap.read() returns no frame, analysis_data is built and saved.
\* processed_frames / total_frames (line 222) raises ZeroDivisionError for a
\* video of no frames; gcp.save_results may raise when there is a connector.
SaveResults ==
    \E v \in DOMAIN workers, saved \in BOOLEAN :
        /\ workers[v].pc = "reading"
        /\ workers[v].processed_frames = workers[v].total_frames
        /\ ~gcp => saved
        /\ IF workers[v].total_frames = 0 \/ ~saved
           THEN /\ analysis_tasks' = DictSet(analysis_tasks, v,
                       Failed(analysis_tasks[v],
                              IF workers[v].total_frames = 0 THEN "division by zero"
                              ELSE "save_results"))
                /\ workers' = DictSet(workers, v, [workers[v] EXCEPT !.pc = "done"])
                /\ local_files' \in FilesAfterFailure(v)
           ELSE /\ workers' = DictSet(workers, v, [workers[v] EXCEPT !.pc = "saved"])
                /\ UNCHANGED <<analysis_tasks, local_files>>
        /\ UNCHANGED <<gcp, status_reports, threatVars, videoVars, riskVars, calibVars,
                       iouVars, classifierVars, reportVars, liveVars, detectVars>>

\* lines 251-263: the task is marked "completed"
MarkCompleted ==
    \E v \in DOMAIN workers :
        /\ workers[v].pc = "saved"
        /\ analysis_tasks' = DictSet(analysis_tasks, v, Completed(analysis_tasks[v]))
        /\ workers' = DictSet(workers, v, [workers[v] EXCEPT !.pc = "cleanup"])
        /\ UNCHANGED <<gcp, local_files, status_reports, threatVars, videoVars, riskVars,
                       calibVars, iouVars, classifierVars, reportVars, liveVars,
                       detectVars>>

\* line 273 and, when os.remove raises, the outer except clause (lines 275-280)
RemoveLocalFile ==
    \E v \in DOMAIN workers, removed \in BOOLEAN :
        /\ workers[v].pc = "cleanup"
        /\ IF removed
           THEN /\ local_files' = local_files \ {v}
                /\ UNCHANGED analysis_tasks
           ELSE /\ analysis_tasks' = DictSet(analysis_tasks, v,
                       Failed(analysis_tasks[v], "os.remove"))
                /\ local_files' \in FilesAfterFailure(v)
        /\ workers' = DictSet(workers, v, [workers[v] EXCEPT !.pc = "done"])
        /\ UNCHANGED <<gcp, status_reports, threatVars, videoVars, riskVars, calibVars,
                       iouVars, classifierVars, reportVars, liveVars, detectVars>>

\* GET /video/analysis/{video_id} for a stored task: the response carries
\* task["status"]
GetAnalysisResults ==
    \E v \in DOMAIN analysis_tasks :
        /\ status_reports' = DictSet(status_reports, v,
               Reported(status_reports[v], analysis_tasks[v].status))
        /\ UNCHANGED <<gcp, analysis_tasks, workers, local_files, threatVars, videoVars,
                       riskVars, calibVars, iouVars, classifierVars, reportVars,
                       liveVars, detectVars>>

TaskNext ==
    \/ UploadVideo
    \/ OpenVideo
    \/ ReadFrame
    \/ SaveResults
    \/ MarkCompleted
    \/ RemoveLocalFile
    \/ GetAnalysisResults

SpecTask == TaskInit /\ [][TaskNext]_vars

\* C28: a task that GET /video/analysis/{id} has reported as "completed" is
\* never later reported as "failed": both statuses are terminal.
CexC28_CompletedNeverFailed ==
    \A v \in DOMAIN status_reports :
        \A i \in 1..Len(status_reports[v]) : \A j \in 1..Len(status_reports[v]) :
            ~(i < j /\ status_reports[v][i] = "completed" /\ status_reports[v][j] = "failed")

====
